---------------------------- MODULE Spec2Model ----------------------------
(***************************************************************************)
(* A model of spotify-viz: the UnifiedSearch component (debounced search,  *)
(* scoring and ranking of the candidates, selection) and the ComparisonViz *)
(* component (feature normalization, radial projection, average path).     *)
(*                                                                         *)
(* Strings are sequences of one-character strings, so that the string      *)
(* functions of the source (toLowerCase, replace, includes, trim) are      *)
(* computed and not assumed.  Real numbers are exact rationals <<n, d>>    *)
(* with d > 0, kept in lowest terms.                                       *)
(***************************************************************************)
EXTENDS Integers, Sequences, FiniteSets, TLC

(***************************************************************************)
(* Strings                                                                 *)
(***************************************************************************)
UpperChars == <<"A","B","C","D","E","F","G","H","I","J","K","L","M",
                "N","O","P","Q","R","S","T","U","V","W","X","Y","Z">>

LowerChars == <<"a","b","c","d","e","f","g","h","i","j","k","l","m",
                "n","o","p","q","r","s","t","u","v","w","x","y","z">>

\* String.prototype.toLowerCase, one character
LowerChar(c) ==
    IF \E i \in 1..Len(UpperChars) : UpperChars[i] = c
    THEN LowerChars[CHOOSE i \in 1..Len(UpperChars) : UpperChars[i] = c]
    ELSE c

ToLowerCase(s) == [i \in 1..Len(s) |-> LowerChar(s[i])]

\* the characters String.prototype.trim removes
WhiteSpace == {" ", "\t", "\n", "\r", "\f"}

\* the characters the regular expression's "." does not match
LineTerminators == {"\n", "\r"}

RECURSIVE TrimStart(_)
TrimStart(s) ==
    IF s # <<>> /\ Head(s) \in WhiteSpace THEN TrimStart(Tail(s)) ELSE s

RECURSIVE TrimEnd(_)
TrimEnd(s) ==
    IF s # <<>> /\ s[Len(s)] \in WhiteSpace
    THEN TrimEnd(SubSeq(s, 1, Len(s) - 1))
    ELSE s

Trim(s) == TrimEnd(TrimStart(s))

StartsWith(s, p) == Len(p) <= Len(s) /\ SubSeq(s, 1, Len(p)) = p

Includes(s, p) ==
    \E i \in 0..(Len(s) - Len(p)) : SubSeq(s, i + 1, i + Len(p)) = p

Drop(s, n) == SubSeq(s, n + 1, Len(s))

\* the replace that goes on while an article leads the string
RECURSIVE StripLeadingArticles(_)
StripLeadingArticles(s) ==
    LET l == ToLowerCase(s)
    IN  IF StartsWith(l, <<"t","h","e"," ">>) THEN StripLeadingArticles(Drop(s, 4))
        ELSE IF StartsWith(l, <<"a"," ">>) THEN StripLeadingArticles(Drop(s, 2))
        ELSE IF StartsWith(l, <<"a","n"," ">>) THEN StripLeadingArticles(Drop(s, 3))
        ELSE s

\* .replace(/(^the |^a |^an )/i, ''): the first alternative that matches at
\* the start of the string is removed, once
StripLeadingArticle(s) ==
    LET l == ToLowerCase(s)
    IN  IF StartsWith(l, <<"t","h","e"," ">>) THEN Drop(s, 4)
        ELSE IF StartsWith(l, <<"a"," ">>) THEN Drop(s, 2)
        ELSE IF StartsWith(l, <<"a","n"," ">>) THEN Drop(s, 3)
        ELSE s

Openers == {"(", "["}
Closers == {")", "]"}

\* the end of the lazy match /([\(\[]).*?([\)\]])/ that starts at i, or 0
BracketMatchEnd(s, i) ==
    LET ends == { j \in (i + 1)..Len(s) :
                    /\ s[j] \in Closers
                    /\ \A k \in (i + 1)..(j - 1) : s[k] \notin LineTerminators }
    IN  IF s[i] \in Openers /\ ends # {}
        THEN CHOOSE j \in ends : \A k \in ends : j <= k
        ELSE 0

\* .replace(/([\(\[]).*?([\)\]])/g, ''): every match, left to right
RECURSIVE StripBracketedFrom(_, _)
StripBracketedFrom(s, i) ==
    IF i > Len(s) THEN <<>>
    ELSE IF BracketMatchEnd(s, i) # 0
         THEN StripBracketedFrom(s, BracketMatchEnd(s, i) + 1)
         ELSE <<s[i]>> \o StripBracketedFrom(s, i + 1)

StripBracketed(s) == StripBracketedFrom(s, 1)

\* the grave accent, which a TLA+ string cannot hold, as an atom of its own
GraveAccent == "grave-accent"

\* the character class of the third replace: . , / # ! $ % ^ & * ; : { } = - _
\* grave accent, ~ and the two parentheses
Punctuation == {".", ",", "/", "#", "!", "$", "%", "^", "&", "*", ";", ":",
                "{", "}", "=", "-", "_", GraveAccent, "~", "(", ")"}

NotPunctuation(c) == c \notin Punctuation

StripPunctuation(s) == SelectSeq(s, NotPunctuation)

normalizeSearchString(str) ==
    Trim(StripPunctuation(StripBracketed(StripLeadingArticle(ToLowerCase(str)))))

\* compareNames that looks for name2 in name1 only
compareNamesOneWay(name1, name2) ==
    LET n1 == normalizeSearchString(name1)
        n2 == normalizeSearchString(name2)
    IN  n1 = n2 \/ Includes(n1, n2)

\* compareNames that asks for equal normalized names
compareNamesExact(name1, name2) ==
    normalizeSearchString(name1) = normalizeSearchString(name2)

compareNames(name1, name2) ==
    LET n1 == normalizeSearchString(name1)
        n2 == normalizeSearchString(name2)
        the == <<"t","h","e"," ">>
    IN  \/ n1 = n2
        \/ Includes(n1, n2) \/ Includes(n2, n1)
        \/ the \o n1 = n2 \/ the \o n2 = n1

MAJOR_ARTISTS ==
    { <<"b","e","a","t","l","e","s">>,
      <<"b","o","b"," ","d","y","l","a","n">>,
      <<"p","i","n","k"," ","f","l","o","y","d">>,
      <<"l","e","d"," ","z","e","p","p","e","l","i","n">>,
      <<"q","u","e","e","n">>,
      <<"d","a","v","i","d"," ","b","o","w","i","e">>,
      <<"r","o","l","l","i","n","g"," ","s","t","o","n","e","s">>,
      <<"b","e","a","c","h"," ","b","o","y","s">>,
      <<"t","h","e"," ","w","h","o">>,
      <<"e","a","g","l","e","s">>,
      <<"f","l","e","e","t","w","o","o","d"," ","m","a","c">>,
      <<"b","r","u","c","e"," ","s","p","r","i","n","g","s","t","e","e","n">> }

albumIndicators ==
    { <<"a","l","b","u","m">>,
      <<"r","e","c","o","r","d">>,
      <<"s","o","u","n","d","t","r","a","c","k">>,
      <<"v","o","l">>,
      <<"v","o","l","u","m","e">>,
      <<"c","o","l","l","e","c","t","i","o","n">>,
      <<"d","e","l","u","x","e">>,
      <<"r","e","m","a","s","t","e","r">> }

knownAlbums ==
    { <<"r","u","b","b","e","r"," ","s","o","u","l">>,
      <<"r","e","v","o","l","v","e","r">>,
      <<"a","b","b","e","y"," ","r","o","a","d">>,
      <<"w","h","i","t","e"," ","a","l","b","u","m">>,
      <<"s","g","t"," ","p","e","p","p","e","r">>,
      <<"d","a","r","k"," ","s","i","d","e"," ","o","f"," ","t","h","e"," ","m","o","o","n">>,
      <<"t","h","e"," ","w","a","l","l">>,
      <<"l","e","d"," ","z","e","p","p","e","l","i","n"," ","i","v">>,
      <<"h","o","u","s","e","s"," ","o","f"," ","t","h","e"," ","h","o","l","y">>,
      <<"b","l","o","n","d","e"," ","o","n"," ","b","l","o","n","d","e">>,
      <<"h","i","g","h","w","a","y"," ","6","1">>,
      <<"b","l","o","o","d"," ","o","n"," ","t","h","e"," ","t","r","a","c","k","s">> }

\* isLikelyAlbumSearch on the query as typed, not normalized
isLikelyAlbumSearchRaw(query) ==
    \/ \E indicator \in albumIndicators : Includes(query, indicator)
    \/ query \in knownAlbums

isLikelyAlbumSearch(query) ==
    LET normalizedQuery == normalizeSearchString(query)
    IN  \/ \E indicator \in albumIndicators : Includes(normalizedQuery, indicator)
        \/ normalizedQuery \in knownAlbums


(***************************************************************************)
(* Scoring.  A score is an integer number of thousandths, so that the one  *)
(* irrational term, Math.log(followers) * 100, is held to three decimals.  *)
(***************************************************************************)
\* a field the response leaves out (undefined)
Undefined == 0 - 1

\* thousandths in one unit of score
Milli == 10 * 10 * 10

\* x || d
OrElse(x, d) == IF x = Undefined \/ x = 0 THEN d ELSE x

\* Math.log(n) * 100 in thousandths, for the follower counts of the catalogue
LogTimes100(n) ==
    CASE n = 1 -> 0
      [] n = 1000 -> 690776
      [] n = 1000000 -> 1381551

Min(a, b) == IF a <= b THEN a ELSE b
Max(a, b) == IF a >= b THEN a ELSE b

\* the base text matching score of getMatchScore
BaseScore(result, query) ==
    LET searchNorm == normalizeSearchString(query)
        nameNorm == normalizeSearchString(result.name)
        exactMatch == compareNames(result.name, query)
    IN  IF exactMatch THEN 10000 * Milli
        ELSE IF StartsWith(nameNorm, searchNorm) \/ StartsWith(searchNorm, nameNorm)
             THEN 8000 * Milli
        ELSE IF Includes(nameNorm, searchNorm) \/ Includes(searchNorm, nameNorm)
             THEN 6000 * Milli
        ELSE 0

\* the album branch with the popularity taken off the score
AlbumScorePopularityPenalty(result, query) ==
    LET isAlbumSearch == isLikelyAlbumSearch(query)
        nameMatchScore == BaseScore(result, query)
        artistMatch ==
            \E i \in 1..Len(result.artists) : compareNames(result.artists[i], query)
        popularity == OrElse(result.popularity, 0)
    IN  IF isAlbumSearch /\ nameMatchScore > 0
        THEN nameMatchScore * 2 - popularity * 100 * Milli
        ELSE IF artistMatch
        THEN 7000 * Milli - popularity * 50 * Milli
        ELSE nameMatchScore - popularity * 30 * Milli

\* the album branch that looks at the artists before the album search
AlbumScoreArtistFirst(result, query) ==
    LET isAlbumSearch == isLikelyAlbumSearch(query)
        nameMatchScore == BaseScore(result, query)
        artistMatch ==
            \E i \in 1..Len(result.artists) : compareNames(result.artists[i], query)
        artistPopularityBoost ==
            IF \E i \in 1..Len(result.artists) :
                   normalizeSearchString(result.artists[i]) \in MAJOR_ARTISTS
            THEN 5000 * Milli
            ELSE 0
        popularity == OrElse(result.popularity, 0)
    IN  IF artistMatch
        THEN 7000 * Milli + popularity * 50 * Milli + artistPopularityBoost
        ELSE IF isAlbumSearch /\ nameMatchScore > 0
        THEN nameMatchScore * 2 + popularity * 100 * Milli + artistPopularityBoost
        ELSE nameMatchScore + popularity * 30 * Milli + artistPopularityBoost \div 2

\* the album branch of getMatchScore
AlbumScore(result, query) ==
    LET isAlbumSearch == isLikelyAlbumSearch(query)
        nameMatchScore == BaseScore(result, query)
        artistMatch ==
            \E i \in 1..Len(result.artists) : compareNames(result.artists[i], query)
        artistPopularityBoost ==
            IF \E i \in 1..Len(result.artists) :
                   normalizeSearchString(result.artists[i]) \in MAJOR_ARTISTS
            THEN 5000 * Milli
            ELSE 0
        popularity == OrElse(result.popularity, 0)
    IN  IF isAlbumSearch /\ nameMatchScore > 0
        THEN nameMatchScore * 2 + popularity * 100 * Milli + artistPopularityBoost
        ELSE IF artistMatch
        THEN 7000 * Milli + popularity * 50 * Milli + artistPopularityBoost
        ELSE nameMatchScore + popularity * 30 * Milli + artistPopularityBoost \div 2

\* the artist branch with a running total that starts at 0
ArtistScoreWithoutBase(result, query) ==
    LET isAlbumSearch == isLikelyAlbumSearch(query)
        artistNameMatch == compareNames(result.name, query)
        popularity == OrElse(result.popularity, 0)
    IN  IF artistNameMatch
        THEN popularity * 50 * Milli
                 + Min(3000 * Milli, LogTimes100(OrElse(result.followers, 1)))
                 + (IF normalizeSearchString(result.name) \in MAJOR_ARTISTS
                    THEN 5000 * Milli ELSE 0)
        ELSE IF ~isAlbumSearch
        THEN popularity * 10 * Milli
        ELSE 0

\* the artist branch that weighs the popularity alike, match or not
ArtistScoreFlatPopularity(result, query) ==
    LET isAlbumSearch == isLikelyAlbumSearch(query)
        score == BaseScore(result, query)
        artistNameMatch == compareNames(result.name, query)
        popularity == OrElse(result.popularity, 0)
    IN  IF artistNameMatch
        THEN score + popularity * 50 * Milli
                   + Min(3000 * Milli, LogTimes100(OrElse(result.followers, 1)))
                   + (IF normalizeSearchString(result.name) \in MAJOR_ARTISTS
                      THEN 5000 * Milli ELSE 0)
        ELSE IF ~isAlbumSearch
        THEN score + popularity * 50 * Milli
        ELSE Min(score, 1000 * Milli)

\* the artist branch of getMatchScore
ArtistScore(result, query) ==
    LET isAlbumSearch == isLikelyAlbumSearch(query)
        score == BaseScore(result, query)
        artistNameMatch == compareNames(result.name, query)
        popularity == OrElse(result.popularity, 0)
    IN  IF artistNameMatch
        THEN score + popularity * 50 * Milli
                   + Min(3000 * Milli, LogTimes100(OrElse(result.followers, 1)))
                   + (IF normalizeSearchString(result.name) \in MAJOR_ARTISTS
                      THEN 5000 * Milli ELSE 0)
        ELSE IF ~isAlbumSearch
        THEN score + popularity * 10 * Milli
        ELSE Min(score, 1000 * Milli)

getMatchScore(result, query) ==
    IF result.type = "album" THEN AlbumScore(result, query)
    ELSE IF result.type = "artist" THEN ArtistScore(result, query)
    ELSE BaseScore(result, query)

\* the comparator with its operands swapped: ascending
CompareScoresAscending(a, b, query) ==
    getMatchScore(a, query) - getMatchScore(b, query)

\* the comparator of the sort, (a, b) => b.score - a.score, on two candidates
\* of the merged list: negative when a is to come before b
CompareScores(a, b, query) == getMatchScore(b, query) - getMatchScore(a, query)

\* Array.prototype.sort, which is stable: x goes after every element that
\* the comparator does not put behind it
RECURSIVE InsertSorted(_, _, _)
InsertSorted(sorted, x, query) ==
    IF sorted = <<>> THEN <<x>>
    ELSE IF CompareScores(Head(sorted), x, query) <= 0
         THEN <<Head(sorted)>> \o InsertSorted(Tail(sorted), x, query)
         ELSE <<x>> \o sorted

RECURSIVE SortByScore(_, _)
SortByScore(list, query) ==
    IF list = <<>> THEN <<>>
    ELSE InsertSorted(SortByScore(SubSeq(list, 1, Len(list) - 1), query),
                      list[Len(list)], query)

\* combinedResults of search: the artists of the response, then its albums,
\* each with its type set by the component
CombinedResults(response) ==
    [i \in 1..Len(response.artists) |-> [response.artists[i] EXCEPT !.type = "artist"]]
    \o [i \in 1..Len(response.albums) |-> [response.albums[i] EXCEPT !.type = "album"]]

\* sortedResults of search
SortedResults(response, query) == SortByScore(CombinedResults(response), query)


(***************************************************************************)
(* The external search API: what spotifyApi.search may answer.             *)
(***************************************************************************)
\* the most items of one type in a response of the model
MaxItems == 2

\* the most search requests in flight at once in the model
MaxInflight == 2

Queen == <<"Q","u","e","e","n">>
Muse == <<"M","u","s","e">>
Abba == <<"A","B","B","A">>
QueenII == <<"Q","u","e","e","n"," ","I","I">>

ArtistItems ==
    { [id |-> "ar1", type |-> "artist", name |-> Muse, popularity |-> 10,
       followers |-> 1000, artists |-> <<>>],
      [id |-> "ar2", type |-> "artist", name |-> Abba, popularity |-> 10,
       followers |-> Undefined, artists |-> <<>>] }

AlbumItems ==
    { [id |-> "al1", type |-> "album", name |-> QueenII, popularity |-> Undefined,
       followers |-> Undefined, artists |-> <<Queen>>] }

\* the lists of at most n different items of a set
ListsOf(S, n) ==
    { l \in UNION { [1..k -> S] : k \in 0..n } :
        \A i, j \in 1..Len(l) : i # j => l[i] # l[j] }

\* the responses of spotifyApi.search(query, ['artist', 'album'], undefined, 50)
ApiResponses ==
    { [artists |-> a, albums |-> b] :
        a \in ListsOf(ArtistItems, MaxItems), b \in ListsOf(AlbumItems, MaxItems) }

\* what the user may type into the input
Inputs ==
    { <<>>, <<" ">>, <<"q","u","e","e","n">>, <<"a","b","b","a">> }

(***************************************************************************)
(* UnifiedSearch                                                           *)
(***************************************************************************)
VARIABLES
    searchTerm,     \* useState('')
    selectedItem,   \* useState<SearchResult | null>(null)
    results,        \* useState<SearchResult[]>([])
    searchLoading,  \* useState(false)
    error,          \* useState('')
    isLoading,      \* the prop the parent passes
    timer,          \* the timeout of the debounce effect
    inflight,       \* the calls of search that await the API, oldest first
    quiet,          \* time since the input last changed, up to DEBOUNCE_MS
    lastEvent       \* the handler that ran last, and what it was given

searchVars == <<searchTerm, selectedItem, results, searchLoading, error,
                isLoading, timer, inflight, quiet, lastEvent>>

Null == [type |-> "null"]

NoTimer == [armed |-> FALSE]

\* the delay of the debounce effect's setTimeout
DEBOUNCE_MS == 300

\* the clock of the model advances by half the delay
TimeStep == DEBOUNCE_MS \div 2

SearchInit ==
    /\ searchTerm = <<>>
    /\ selectedItem = Null
    /\ results = <<>>
    /\ searchLoading = FALSE
    /\ error = ""
    /\ isLoading = FALSE
    /\ timer = [armed |-> TRUE, left |-> DEBOUNCE_MS, searchTerm |-> <<>>,
                selectedItem |-> Null, isLoading |-> FALSE]
    /\ inflight = <<>>
    /\ quiet = 0
    /\ lastEvent = [kind |-> "mount"]

\* selectedItem && term === selectedItem.name
IsSelectedName(term, selected) ==
    IF selected = Null THEN FALSE ELSE term = selected.name

\* search without the trim: only the empty query is short-circuited
NoSearchNeededUntrimmed(query, selected) ==
    IF query = <<>> THEN TRUE ELSE IsSelectedName(query, selected)

\* search without the test of the selected item's name
NoSearchNeededIgnoresSelection(query, selected) ==
    Trim(query) = <<>>

\* the test at the top of search: nothing to search for
NoSearchNeeded(query, selected) ==
    IF Trim(query) = <<>> THEN TRUE ELSE IsSelectedName(query, selected)

\* every request in flight is now older than a request for query
Supersede(requests, query) ==
    [i \in 1..Len(requests) |-> [requests[i] EXCEPT !.supersededBy = <<query>>]]

\* search(query) up to its first await, in a render whose selectedItem and
\* isLoading are selected and loading: the state it leaves
SearchCall(query, selected, loading) ==
    IF NoSearchNeeded(query, selected)
    THEN [results |-> <<>>, searchLoading |-> searchLoading, error |-> error,
          inflight |-> inflight]
    ELSE [results |-> results, searchLoading |-> TRUE, error |-> "",
          inflight |-> Append(Supersede(inflight, query),
                              [query |-> query, isLoading |-> loading,
                               supersededBy |-> <<>>])]

\* the debounce effect with searchTerm left out of its dependencies: an
\* edit of the input alone does not clear the timeout
DebounceEffectStaleTerm(term, selected, loading) ==
    IF <<selected, loading>> = <<selectedItem, isLoading>>
    THEN timer
    ELSE IF loading \/ IsSelectedName(term, selected)
         THEN NoTimer
         ELSE [armed |-> TRUE, left |-> DEBOUNCE_MS, searchTerm |-> term,
               selectedItem |-> selected, isLoading |-> loading]

\* the debounce effect, run after a render with these values of its
\* dependencies: the timeout it leaves
DebounceEffect(term, selected, loading) ==
    IF <<term, selected, loading>> = <<searchTerm, selectedItem, isLoading>>
    THEN timer
    ELSE IF loading \/ IsSelectedName(term, selected)
         THEN NoTimer
         ELSE [armed |-> TRUE, left |-> DEBOUNCE_MS, searchTerm |-> term,
               selectedItem |-> selected, isLoading |-> loading]

\* handleInputChange: the user edits the input to newValue
handleInputChange(newValue) ==
    LET selected == IF ~IsSelectedName(newValue, selectedItem)
                    THEN Null
                    ELSE selectedItem
    IN  /\ ~isLoading                     \* the input is disabled while loading
        /\ newValue # searchTerm          \* a change event carries a new value
        /\ searchTerm' = newValue
        /\ selectedItem' = selected
        /\ timer' = DebounceEffect(newValue, selected, isLoading)
        /\ quiet' = 0
        /\ lastEvent' = [kind |-> "input", value |-> newValue]
        /\ UNCHANGED <<results, searchLoading, error, isLoading, inflight>>

\* the input's onClick
InputClick ==
    /\ ~isLoading
    /\ searchTerm # <<>>
    /\ ~IsSelectedName(searchTerm, selectedItem)
    /\ LET after == SearchCall(searchTerm, selectedItem, isLoading)
       IN  /\ Len(after.inflight) <= MaxInflight
           /\ results' = after.results
           /\ searchLoading' = after.searchLoading
           /\ error' = after.error
           /\ inflight' = after.inflight
           /\ lastEvent' = [kind |-> "click", query |-> searchTerm,
                            dispatched |-> after.inflight # inflight,
                            quiet |-> quiet]
    /\ UNCHANGED <<searchTerm, selectedItem, isLoading, timer, quiet>>

\* time passes
Tick ==
    /\ quiet' = Min(quiet + TimeStep, DEBOUNCE_MS)
    /\ timer' = IF timer.armed
                THEN [timer EXCEPT !.left = Max(timer.left - TimeStep, 0)]
                ELSE timer
    /\ <<quiet', timer'>> # <<quiet, timer>>
    /\ lastEvent' = [kind |-> "tick"]
    /\ UNCHANGED <<searchTerm, selectedItem, results, searchLoading, error,
                   isLoading, inflight>>

\* the callback of the debounce effect's setTimeout
DebounceTimeout ==
    /\ timer.armed
    /\ timer.left = 0
    /\ LET after ==
               IF timer.searchTerm # <<>>
                  /\ ~IsSelectedName(timer.searchTerm, timer.selectedItem)
               THEN SearchCall(timer.searchTerm, timer.selectedItem, timer.isLoading)
               ELSE [results |-> <<>>, searchLoading |-> searchLoading,
                     error |-> error, inflight |-> inflight]
       IN  /\ Len(after.inflight) <= MaxInflight
           /\ results' = after.results
           /\ searchLoading' = after.searchLoading
           /\ error' = after.error
           /\ inflight' = after.inflight
           /\ lastEvent' = [kind |-> "timer", query |-> timer.searchTerm,
                            dispatched |-> after.inflight # inflight,
                            quiet |-> quiet]
    /\ timer' = NoTimer
    /\ UNCHANGED <<searchTerm, selectedItem, isLoading, quiet>>

RemoveAt(seq, i) == SubSeq(seq, 1, i - 1) \o SubSeq(seq, i + 1, Len(seq))

\* sortedResults for every response and every query that can be dispatched,
\* worked out once
SortedResultsOf ==
    [r \in ApiResponses, q \in Inputs |-> SortedResults(r, q)] @@ <<>>

\* what the rest of search's try block does with the response
ApplyResponse(request, response) ==
    IF ~request.isLoading
    THEN SortedResultsOf[response, request.query]
    ELSE results

\* the i-th call of search gets its response
SearchResolved(i, response) ==
    /\ i \in 1..Len(inflight)
    /\ results' = ApplyResponse(inflight[i], response)
    /\ searchLoading' = FALSE
    /\ inflight' = RemoveAt(inflight, i)
    /\ lastEvent' = [kind |-> "resolved", request |-> inflight[i],
                     response |-> response, applied |-> ~inflight[i].isLoading,
                     error |-> error]
    /\ UNCHANGED <<searchTerm, selectedItem, error, isLoading, timer, quiet>>

\* a catch that shows a failure as a search without matches
SearchRejectedSilently(i, cause) ==
    /\ i \in 1..Len(inflight)
    /\ results' = <<>>
    /\ searchLoading' = FALSE
    /\ inflight' = RemoveAt(inflight, i)
    /\ lastEvent' = [kind |-> "rejected", request |-> inflight[i],
                     cause |-> cause, searchTerm |-> searchTerm]
    /\ UNCHANGED <<searchTerm, selectedItem, error, isLoading, timer, quiet>>

\* the i-th call of search fails, in getSpotifyApi or in spotifyApi.search
SearchRejected(i, cause) ==
    /\ i \in 1..Len(inflight)
    /\ error' = "Error searching"
    /\ searchLoading' = FALSE
    /\ inflight' = RemoveAt(inflight, i)
    /\ lastEvent' = [kind |-> "rejected", request |-> inflight[i],
                     cause |-> cause, searchTerm |-> searchTerm]
    /\ UNCHANGED <<searchTerm, selectedItem, results, isLoading, timer, quiet>>

\* handleSelect without setSearchTerm(result.name)
handleSelectKeepsText(i) ==
    /\ ~isLoading
    /\ i \in 1..Len(results)
    /\ LET result == results[i]
       IN  /\ selectedItem' = result
           /\ results' = <<>>
           /\ isLoading' = TRUE
           /\ timer' = DebounceEffect(searchTerm, result, TRUE)
           /\ lastEvent' = [kind |-> "select", result |-> result,
                            onSelect |-> <<result.type, result.id>>]
    /\ UNCHANGED <<searchTerm, quiet, searchLoading, error, inflight>>

\* handleSelect: a click on the i-th entry of the list; onSelect makes the
\* parent start its retrieval, which sets isLoading in the same render
handleSelect(i) ==
    /\ ~isLoading                         \* the list shows only when not loading
    /\ i \in 1..Len(results)
    /\ LET result == results[i]
       IN  /\ selectedItem' = result
           /\ searchTerm' = result.name
           /\ results' = <<>>
           /\ isLoading' = TRUE
           /\ timer' = DebounceEffect(result.name, result, TRUE)
           /\ quiet' = IF result.name = searchTerm THEN quiet ELSE 0
           /\ lastEvent' = [kind |-> "select", result |-> result,
                            onSelect |-> <<result.type, result.id>>]
    /\ UNCHANGED <<searchLoading, error, inflight>>

\* the parent's retrieval ends and isLoading goes back to false
ParentLoaded ==
    /\ isLoading
    /\ isLoading' = FALSE
    /\ timer' = DebounceEffect(searchTerm, selectedItem, FALSE)
    /\ lastEvent' = [kind |-> "loaded"]
    /\ UNCHANGED <<searchTerm, selectedItem, results, searchLoading, error,
                   inflight, quiet>>

\* handleClickOutside: a mousedown outside the component
handleClickOutside ==
    /\ results' = <<>>
    /\ lastEvent' = [kind |-> "outside"]
    /\ UNCHANGED <<searchTerm, selectedItem, searchLoading, error, isLoading,
                   timer, inflight, quiet>>

(***************************************************************************)
(* Exact rational arithmetic for the numbers of ComparisonViz              *)
(***************************************************************************)
Abs(n) == IF n < 0 THEN 0 - n ELSE n

RECURSIVE Gcd(_, _)
Gcd(a, b) == IF b = 0 THEN a ELSE Gcd(b, a % b)

\* the rational n / d, d # 0, in lowest terms with a positive denominator
Rat(n, d) ==
    LET g == Gcd(Abs(n), Abs(d))
        sign == IF d < 0 THEN 0 - 1 ELSE 1
    IN  <<sign * (n \div g), sign * (d \div g)>>

Whole(n) == <<n, 1>>
RatAdd(a, b) == Rat(a[1] * b[2] + b[1] * a[2], a[2] * b[2])
RatSub(a, b) == Rat(a[1] * b[2] - b[1] * a[2], a[2] * b[2])
RatMul(a, b) == Rat(a[1] * b[1], a[2] * b[2])
RatDiv(a, b) == Rat(a[1] * b[2], a[2] * b[1])
RatLess(a, b) == a[1] * b[2] < b[1] * a[2]
RatMin(a, b) == IF RatLess(b, a) THEN b ELSE a
RatMax(a, b) == IF RatLess(a, b) THEN b ELSE a

\* the sum of f[1], ..., f[n], added up from the left as reduce does
RECURSIVE RatSum(_, _)
RatSum(f, n) == IF n = 0 THEN Whole(0) ELSE RatAdd(RatSum(f, n - 1), f[n])

(***************************************************************************)
(* ComparisonViz                                                           *)
(***************************************************************************)
FEATURES == <<"tempo", "danceability", "energy", "acousticness", "loudness",
              "valence", "duration">>

\* normalizeValue's reference duration in milliseconds
maxDuration == 300000

\* normalizeValue of a Song (which has duration_ms) or of a record of
\* averages (which has duration)
normalizeValue(song, feature) ==
    CASE feature = "duration" ->
            IF "duration_ms" \in DOMAIN song
            THEN RatDiv(song.duration_ms, Whole(maxDuration))
            ELSE song.duration
      [] feature = "loudness" ->
            RatDiv(RatAdd(song.loudness, Whole(60)), Whole(60))
      [] feature = "tempo" ->
            RatMax(Whole(0), RatMin(Whole(1), RatDiv(RatSub(song.tempo, Whole(60)), Whole(120))))
      [] OTHER -> song[feature]

graphWidth == 800

\* the default of the height prop
height == 800

radius == Min(graphWidth, height) \div 2 - 60

\* scaleLinear({domain: [0, 1], range: [0, radius]}), which does not clamp
radialScale(value) == RatMul(value, Whole(radius))

\* generatePoints that leaves out the axes whose value is not positive
generatePointsSkipsNonPositive(song) ==
    LET Positive(point) == RatLess(Whole(0), point.radius)
    IN  SelectSeq([k \in 1..Len(FEATURES) |->
                      [feature |-> FEATURES[k],
                       axis |-> k - 1,
                       radius |-> radialScale(normalizeValue(song, FEATURES[k]))]],
                  Positive)

\* generatePoints: the vertex of each axis; axis i lies at angle i * angleStep
generatePoints(song) ==
    [k \in 1..Len(FEATURES) |->
        [feature |-> FEATURES[k],
         axis |-> k - 1,
         radius |-> radialScale(normalizeValue(song, FEATURES[k]))]]

\* generatePathCoordinates: M to the first vertex, then for each vertex a
\* curve Q through it to the middle of it and the next one, then Z
generatePathCoordinates(song) ==
    LET points == generatePoints(song)
    IN  [start |-> points[1],
         curves |-> [k \in 1..Len(points) |->
                        [control |-> points[k],
                         to |-> <<points[k], points[(k % Len(points)) + 1]>>]],
         closed |-> TRUE]

\* the averages record without the special case of tempo
AveragesNormalizeFirst(songs) ==
    [feature \in { FEATURES[k] : k \in 1..Len(FEATURES) } |->
        RatDiv(RatSum([i \in 1..Len(songs) |->
                           normalizeValue(songs[i], feature)], Len(songs)),
               Whole(Len(songs)))]

\* the averages record that getAveragePath builds
Averages(songs) ==
    LET tempoAvg == RatDiv(RatSum([i \in 1..Len(songs) |-> songs[i].tempo], Len(songs)),
                           Whole(Len(songs)))
    IN  [feature \in { FEATURES[k] : k \in 1..Len(FEATURES) } |->
            IF feature = "tempo"
            THEN tempoAvg
            ELSE RatDiv(RatSum([i \in 1..Len(songs) |->
                                    normalizeValue(songs[i], feature)], Len(songs)),
                        Whole(Len(songs)))]

\* getAveragePath without its guard: the means of no songs are 0 / 0 = NaN,
\* and the path is a string of NaN coordinates
getAveragePathUnguarded(songs) ==
    IF Len(songs) = 0
    THEN [start |-> "NaN", curves |-> <<>>, closed |-> TRUE]
    ELSE generatePathCoordinates(
             [feature \in { FEATURES[k] : k \in 1..Len(FEATURES) } |->
                 RatDiv(RatSum([i \in 1..Len(songs) |->
                                    IF feature = "tempo" THEN songs[i].tempo
                                    ELSE normalizeValue(songs[i], feature)],
                               Len(songs)),
                        Whole(Len(songs)))])

NoPath == [closed |-> FALSE]

\* getAveragePath: null for no songs
getAveragePath(songs) ==
    IF Len(songs) = 0 THEN NoPath ELSE generatePathCoordinates(Averages(songs))

\* the leftAverage && <path d={leftAverage} .../> of the render: the elements
\* drawn for the average of the left side
AveragePathElement(average) ==
    IF average = NoPath
    THEN <<>>
    ELSE <<[d |-> average, stroke |-> "#FF3366", fill |-> "none"]>>

\* getOpacityScale.  Math.pow(numTracks, 0.5) is irrational for most sizes,
\* so every opacity is kept as its square: the four opacities are positive,
\* and squaring keeps the order of positive numbers.  baseOpacity squared is
\* max(0.004^2, 1 / numTracks).
getOpacityScale(numTracks) ==
    LET baseOpacity == RatMax(Rat(16, 1000000), Rat(1, numTracks))
    IN  [fill |-> RatMul(baseOpacity, Rat(16, 10000)),
         stroke |-> RatMul(baseOpacity, Whole(16)),
         hoverFill |-> Rat(64, 10000),
         hoverStroke |-> Rat(1, 4)]

\* the fillOpacity and strokeOpacity of the visible paths of a SongPath
\* (squared, as getOpacityScale keeps them)
SongPath(isHovered, opacities) ==
    [fillOpacity |-> IF isHovered THEN opacities.hoverFill ELSE opacities.fill,
     strokeOpacity |-> IF isHovered THEN opacities.hoverStroke ELSE opacities.stroke]

\* the most songs of a collection in the model
MaxSongs == 2

Tempos == {40, 100, 140, 200}
Loudnesses == {0 - 6, 0 - 30, 0 - 66}

\* the tracks a collection is drawn from
SongPool ==
    { [id |-> <<t, l>>,
       tempo |-> Whole(t),
       loudness |-> Whole(l),
       duration_ms |-> Whole(IF t < 120 THEN 150000 ELSE 450000),
       danceability |-> Rat(t, 200),
       energy |-> Rat(0 - l, 30),
       acousticness |-> Rat(1, 4),
       valence |-> Rat(3, 4),
       instrumentalness |-> Whole(0),
       liveness |-> Whole(0),
       key |-> 5] : t \in Tempos, l \in Loudnesses }

VARIABLES
    leftSongs,      \* the leftSongs prop
    leftAverage,    \* useMemo(() => getAveragePath(leftSongs))
    songPaths       \* the path of each SongPath of the left side

vizVars == <<leftSongs, leftAverage, songPaths>>

Pending == [closed |-> FALSE, pending |-> TRUE]

VizIdle ==
    /\ leftSongs = <<>>
    /\ leftAverage = Pending
    /\ songPaths = <<>>

VizInit ==
    /\ leftSongs \in UNION { [1..n -> SongPool] : n \in 0..MaxSongs }
    /\ leftAverage = Pending
    /\ songPaths = <<>>

\* ComparisonViz renders its props
Render ==
    /\ leftAverage = Pending
    /\ leftAverage' = getAveragePath(leftSongs)
    /\ songPaths' = [i \in 1..Len(leftSongs) |-> generatePathCoordinates(leftSongs[i])]
    /\ UNCHANGED leftSongs

\* the parent passes another collection
NewSongs(songs) ==
    /\ leftAverage # Pending
    /\ leftSongs' = songs
    /\ leftAverage' = Pending
    /\ songPaths' = <<>>

(***************************************************************************)
(* The text functions called on their own: normalizeSearchString,          *)
(* compareNames, isLikelyAlbumSearch and getMatchScore are pure, and what   *)
(* is said of them is checked on the calls below.                          *)
(***************************************************************************)
\* the longest generated name in the model
MaxNameLen == 3

Beatles == <<"B","e","a","t","l","e","s">>
TheBeatles == <<"T","h","e"," ","B","e","a","t","l","e","s">>
AbbeyRoad == <<"A","b","b","e","y"," ","R","o","a","d">>
Radiohead == <<"R","a","d","i","o","h","e","a","d">>
LedZeppelin == <<"L","e","d"," ","Z","e","p","p","e","l","i","n">>
LedZeppelinIV == <<"l","e","d"," ","z","e","p","p","e","l","i","n"," ","i","v">>
TheWall == <<"T","h","e"," ","W","a","l","l">>
Revolver == <<"R","e","v","o","l","v","e","r">>
RevolverRemastered == <<"R","e","v","o","l","v","e","r"," ","(","R","e","m","a","s","t","e","r","e","d",")">>
GreatestHitsVol2 == <<"H","i","t","s"," ","V","o","l","."," ","2">>
Evolve == <<"E","v","o","l","v","e">>
AnAlbum == <<"A","n"," ","A","l","b","u","m">>
TheThe == <<"T","h","e"," ","T","h","e">>

\* names and queries as the catalogue and the user write them
NamedNames ==
    { Beatles, TheBeatles, AbbeyRoad, Radiohead, 
      LedZeppelin, LedZeppelinIV, TheWall, Revolver,
      RevolverRemastered, GreatestHitsVol2, Evolve, AnAlbum, TheThe,
      Queen, QueenII, Muse, Abba }

\* the characters of the generated names: letters of both cases, white
\* space, a line terminator, brackets and punctuation
NameChars == {"a", "B", " ", "\n", "(", ")", "[", "]"}

\* every string of at most n characters of a set
StringsOf(chars, n) == UNION { [1..k -> chars] : k \in 0..n }

\* the arguments of normalizeSearchString in the model
NormalizeInputs ==
    NamedNames \cup StringsOf(NameChars, MaxNameLen) \cup MAJOR_ARTISTS \cup knownAlbums

\* the arguments of compareNames in the model
CompareInputs == NamedNames \cup StringsOf({"a", "b", " "}, MaxNameLen - 1)

\* the queries of isLikelyAlbumSearch and getMatchScore in the model
QueryInputs == NamedNames \cup Inputs \cup MAJOR_ARTISTS \cup knownAlbums

\* the popularity of an album of the catalogue: absent, or 0 to 100
Popularities == {Undefined, 0, 1, 50, 100}

\* the album candidates getMatchScore is called on
AlbumCandidates ==
    { [id |-> "al", type |-> "album", name |-> n, popularity |-> p,
       followers |-> Undefined, artists |-> a] :
        n \in {AbbeyRoad, QueenII, RevolverRemastered, LedZeppelinIV},
        p \in Popularities,
        a \in {<<>>, <<Queen>>, <<TheBeatles>>, <<Muse, Abba>>, <<LedZeppelin>>} }

\* the number of followers of an artist of the catalogue, absent or given
FollowerCounts == {Undefined, 0, 1000, 1000000}

\* the artist candidates getMatchScore is called on
ArtistCandidates ==
    { [id |-> "ar", type |-> "artist", name |-> n, popularity |-> p,
       followers |-> f, artists |-> <<>>] :
        n \in {Queen, Muse, TheBeatles, Radiohead, <<"t","h","e"," ","w","h","o">>},
        p \in Popularities,
        f \in FollowerCounts }

VARIABLES
    call            \* the last call of a text function: fn, args, result

textVars == <<call>>

NoCall == [fn |-> "none", args |-> <<>>, returned |-> FALSE]

TextIdle == call = NoCall

\* a call that is about to be made
CallOf(fn, args) == [fn |-> fn, args |-> args, returned |-> FALSE]

\* the calls of the model
TextInit ==
    call \in { CallOf("normalizeSearchString", <<str>>) : str \in NormalizeInputs }
          \cup { CallOf("compareNames", <<name1, name2>>) :
                     name1 \in CompareInputs, name2 \in CompareInputs }
          \cup { CallOf("isLikelyAlbumSearch", <<query>>) : query \in QueryInputs }
          \cup { CallOf("getMatchScore", <<result, query>>) :
                     result \in AlbumCandidates \cup ArtistCandidates,
                     query \in QueryInputs }

\* what a call leaves when it has returned
Returned(result) == [fn |-> call.fn, args |-> call.args, returned |-> TRUE,
                     result |-> result]

\* getMatchScore's searchNorm and nameNorm
CallNormalizeSearchString ==
    /\ call.fn = "normalizeSearchString" /\ ~call.returned
    /\ call' = Returned(normalizeSearchString(call.args[1]))

\* getMatchScore's exactMatch, artistMatch and artistNameMatch
CallCompareNames ==
    /\ call.fn = "compareNames" /\ ~call.returned
    /\ call' = Returned(compareNames(call.args[1], call.args[2]))

\* getMatchScore's isAlbumSearch
CallIsLikelyAlbumSearch ==
    /\ call.fn = "isLikelyAlbumSearch" /\ ~call.returned
    /\ call' = Returned(isLikelyAlbumSearch(call.args[1]))

\* the score of a candidate in the sort of search
CallGetMatchScore ==
    /\ call.fn = "getMatchScore" /\ ~call.returned
    /\ call' = Returned(getMatchScore(call.args[1], call.args[2]))

(***************************************************************************)
(* The page: handleSelect's bulk retrieval of one side (the left one).     *)
(* leftLoading is the isLoading prop of UnifiedSearch and leftSongs the     *)
(* leftSongs prop of ComparisonViz, so the variables of those are used.    *)
(***************************************************************************)
\* the most track identifiers of one audioFeatures request
BATCH_SIZE == 100

\* the limit parameter of the listing requests
PAGE_LIMIT == 50

\* the pages in which the API hands out a listing
RECURSIVE PagesOf(_, _)
PagesOf(items, limit) ==
    IF Len(items) <= limit THEN <<items>>
    ELSE <<SubSeq(items, 1, limit)>>
            \o PagesOf(SubSeq(items, limit + 1, Len(items)), limit)

\* the catalogue of the API: the track identifiers of each album, in the
\* order of the album; X and Y share two tracks, Z has none
AlbumTrackIds(album) ==
    CASE album = "X" -> [i \in 1..(BATCH_SIZE + 5) |-> i]
      [] album = "Y" -> <<BATCH_SIZE + 3, 3, 2 * BATCH_SIZE>>
      [] album = "Z" -> <<>>

\* the items of GET /albums/{id}/tracks
TrackListing(album) ==
    [i \in 1..Len(AlbumTrackIds(album)) |->
        [id |-> AlbumTrackIds(album)[i], name |-> <<album, AlbumTrackIds(album)[i]>>]]

TrackPages(album) == PagesOf(TrackListing(album), PAGE_LIMIT)

\* the pages of GET /artists/{id}/albums
ArtistAlbumPages(artist) ==
    CASE artist = "A" -> << <<[id |-> "X"]>>, <<[id |-> "Y"]>> >>
      [] artist = "B" -> << <<[id |-> "Y"], [id |-> "X"]>> >>

\* what UnifiedSearch may hand to onSelect
Selectable ==
    { <<"artist", "A">>, <<"artist", "B">>,
      <<"album", "X">>, <<"album", "Y">>, <<"album", "Z">> }

\* the record of GET /audio-features for a track
AudioFeaturesOf(id) ==
    [id |-> id, tempo |-> 60 + (id % 120), loudness |-> 0 - (id % 60),
     key |-> id % 12, energy |-> id % 2]

\* the record of GET /tracks for a track
TrackDetailsOf(id) == [id |-> id, duration_ms |-> (10 * 10 * 10) * id]

\* what the API may have no record for, of a batch: nothing, its first
\* identifier or its last
MissingChoices == {"none", "first", "last"}

\* the answer to a request for a batch of identifiers: one record for each
\* identifier, in the order of the request, null where the API has none
BatchResponse(trackIds, missing, endpoint) ==
    [k \in 1..Len(trackIds) |->
        IF \/ missing = "first" /\ k = 1
           \/ missing = "last" /\ k = Len(trackIds)
        THEN Null
        ELSE IF endpoint = "audio-features"
             THEN AudioFeaturesOf(trackIds[k])
             ELSE TrackDetailsOf(trackIds[k])]

VARIABLES
    leftError,      \* leftError
    leftLabel,      \* leftLabel
    task,           \* the call of handleSelect that is running, if any
    pageEvent       \* history: how the last call of handleSelect went

pageVars == <<leftError, leftLabel, task, pageEvent>>

IdleTask == [pc |-> "idle", fetches |-> <<>>]

PageIdle ==
    /\ leftError = ""
    /\ leftLabel = "Set A"
    /\ task = IdleTask
    /\ pageEvent = [kind |-> "none"]

\* fetchAlbumTracks as it starts: no tracks, the first page to get
NewFetch(albumId) == [album |-> albumId, url |-> 1, tracks |-> <<>>]

\* data.next of page number url of a listing of so many pages: 0 for null
NextUrl(url, pages) == IF url < Len(pages) THEN url + 1 ELSE 0

\* tracksNestedArray.flat()
RECURSIVE Flat(_)
Flat(nested) == IF nested = <<>> THEN <<>> ELSE Head(nested) \o Flat(Tail(nested))

\* the dedupe that keeps every track
uniqueTracksKeepsDuplicates(tracks) == tracks

\* Array.from(new Map(tracks.map(track => [track.id, track])).values()): a
\* key keeps the place of its first insertion and holds the value inserted
\* last
uniqueTracks(tracks) ==
    LET n == Len(tracks)
        firsts == { i \in 1..n : \A j \in 1..(i - 1) : tracks[j].id # tracks[i].id }
        place == [i \in firsts |-> Cardinality({ j \in firsts : j <= i })]
        keyAt == [m \in 1..Cardinality(firsts) |-> CHOOSE i \in firsts : place[i] = m]
        LastOf(i) == CHOOSE k \in 1..n :
                        /\ tracks[k].id = tracks[i].id
                        /\ \A j \in (k + 1)..n : tracks[j].id # tracks[k].id
    IN  [m \in 1..Cardinality(firsts) |-> tracks[LastOf(keyAt[m])]]

\* uniqueTracks.slice(i, i + 100).map(track => track.id)
TrackIdsOfBatch(tracks, i) ==
    [k \in 1..(IF Len(tracks) - i < BATCH_SIZE THEN Len(tracks) - i ELSE BATCH_SIZE) |->
        tracks[i + k].id]

\* the record of the first batch at the offset of the index
BatchRecordOfFirstBatch(batches, index) ==
    batches[1][(index % BATCH_SIZE) + 1]

\* batches[Math.floor(index / 100)][index % 100]
BatchRecord(batches, index) ==
    batches[(index \div BATCH_SIZE) + 1][(index % BATCH_SIZE) + 1]

\* the merge throws a TypeError: it reads a property of a null record
MergeThrows(tracks, audioFeaturesBatches, audioAnalysisBatches) ==
    \E index \in 0..(Len(tracks) - 1) :
        \/ BatchRecord(audioFeaturesBatches, index) = Null
        \/ BatchRecord(audioAnalysisBatches, index) = Null

\* songsWithFeatures: {...track, ...features, duration_ms, loudness, tempo, key}
songsWithFeatures(tracks, audioFeaturesBatches, audioAnalysisBatches) ==
    [n \in 1..Len(tracks) |->
        LET features == BatchRecord(audioFeaturesBatches, n - 1)
            analysis == BatchRecord(audioAnalysisBatches, n - 1)
        IN  [id |-> features.id,
             name |-> tracks[n].name,
             energy |-> features.energy,
             duration_ms |-> analysis.duration_ms,
             loudness |-> features.loudness,
             tempo |-> features.tempo,
             key |-> features.key]]

\* what the history keeps of a call that has ended
Ended(kind, cause) ==
    [kind |-> kind, cause |-> cause, type |-> task.type, id |-> task.id,
     before |-> task.before, requests |-> task.requests]

\* a catch that also empties the collection
CatchClearsSongs(cause, requests) ==
    /\ leftError' = "Error fetching data. Please try again."
    /\ isLoading' = FALSE
    /\ task' = IdleTask
    /\ pageEvent' = [Ended("failed", cause) EXCEPT !.requests = requests]
    /\ leftSongs' = <<>>
    /\ UNCHANGED <<leftLabel, leftAverage, songPaths>>

\* catch and finally of handleSelect
Catch(cause, requests) ==
    /\ leftError' = "Error fetching data. Please try again."
    /\ isLoading' = FALSE
    /\ task' = IdleTask
    /\ pageEvent' = [Ended("failed", cause) EXCEPT !.requests = requests]
    /\ UNCHANGED <<leftSongs, leftLabel, leftAverage, songPaths>>

\* the end of the try block, from the merge on, and finally: the new
\* collection goes to ComparisonViz, which renders again
Combine(tracks, audioFeaturesBatches, audioAnalysisBatches, requests) ==
    IF MergeThrows(tracks, audioFeaturesBatches, audioAnalysisBatches)
    THEN Catch("merge", requests)
    ELSE /\ leftSongs' = songsWithFeatures(tracks, audioFeaturesBatches,
                                           audioAnalysisBatches)
         /\ leftLabel' = task.label
         /\ isLoading' = FALSE
         /\ task' = IdleTask
         /\ pageEvent' = [Ended("loaded", "none") EXCEPT !.requests = requests]
         /\ leftAverage' = Pending
         /\ songPaths' = <<>>
         /\ UNCHANGED leftError

\* handleSelect without setError('')
PageHandleSelectKeepsError(type, id) ==
    /\ task = IdleTask
    /\ ~isLoading
    /\ isLoading' = TRUE
    /\ task' = [pc |-> "getSpotifyApi", type |-> type, id |-> id, label |-> "",
                albums |-> <<>>, url |-> 0, fetches |-> <<>>,
                uniqueTracks |-> <<>>, i |-> 0,
                audioFeaturesBatches |-> <<>>, audioAnalysisBatches |-> <<>>,
                requests |-> <<>>,
                before |-> [songs |-> leftSongs, label |-> leftLabel]]
    /\ pageEvent' = [kind |-> "select"]
    /\ UNCHANGED <<leftError, leftSongs, leftLabel, leftAverage, songPaths>>

\* handleSelect(type, id, 'left') up to its first await; UnifiedSearch shows
\* no result to click while the side is loading
PageHandleSelect(type, id) ==
    /\ task = IdleTask
    /\ ~isLoading
    /\ isLoading' = TRUE
    /\ leftError' = ""
    /\ task' = [pc |-> "getSpotifyApi", type |-> type, id |-> id, label |-> "",
                albums |-> <<>>, url |-> 0, fetches |-> <<>>,
                uniqueTracks |-> <<>>, i |-> 0,
                audioFeaturesBatches |-> <<>>, audioAnalysisBatches |-> <<>>,
                requests |-> <<>>,
                before |-> [songs |-> leftSongs, label |-> leftLabel]]
    /\ pageEvent' = [kind |-> "select"]
    /\ UNCHANGED <<leftSongs, leftLabel, leftAverage, songPaths>>

\* await getSpotifyApi()
GotSpotifyApi ==
    /\ task.pc = "getSpotifyApi"
    /\ task' = [task EXCEPT !.pc = "getAccessToken"]
    /\ UNCHANGED <<isLoading, leftError, leftSongs, leftLabel, leftAverage,
                   songPaths, pageEvent>>

\* await spotifyApi.getAccessToken()
GotAccessToken ==
    /\ task.pc = "getAccessToken"
    /\ task' = [task EXCEPT !.pc = "get"]
    /\ UNCHANGED <<isLoading, leftError, leftSongs, leftLabel, leftAverage,
                   songPaths, pageEvent>>

\* await spotifyApi.artists.get(id) or spotifyApi.albums.get(id): the label,
\* and the first listing request
GotNamed ==
    /\ task.pc = "get"
    /\ task' = IF task.type = "artist"
               THEN [task EXCEPT !.pc = "fetchArtistAlbums", !.label = task.id,
                                 !.url = 1]
               ELSE [task EXCEPT !.pc = "fetchAlbumTracks", !.label = task.id,
                                 !.fetches = <<NewFetch(task.id)>>]
    /\ UNCHANGED <<isLoading, leftError, leftSongs, leftLabel, leftAverage,
                   songPaths, pageEvent>>

\* fetchArtistAlbums: one turn of the loop; after the last page every
\* album's fetchAlbumTracks is started
FetchedAlbumsPage ==
    /\ task.pc = "fetchArtistAlbums"
    /\ LET pages == ArtistAlbumPages(task.id)
           albums == task.albums \o pages[task.url]
           next == NextUrl(task.url, pages)
       IN  task' = IF next # 0
                   THEN [task EXCEPT !.albums = albums, !.url = next]
                   ELSE [task EXCEPT !.pc = "fetchAlbumTracks",
                                     !.albums = albums, !.url = 0,
                                     !.fetches = [k \in 1..Len(albums) |->
                                                     NewFetch(albums[k].id)]]
    /\ UNCHANGED <<isLoading, leftError, leftSongs, leftLabel, leftAverage,
                   songPaths, pageEvent>>

\* fetchAlbumTracks of the k-th album: one turn of the loop
FetchedTracksPage(k) ==
    /\ task.pc = "fetchAlbumTracks"
    /\ k \in 1..Len(task.fetches)
    /\ task.fetches[k].url # 0
    /\ LET fetch == task.fetches[k]
           pages == TrackPages(fetch.album)
       IN  task' = [task EXCEPT !.fetches[k] =
                       [fetch EXCEPT !.tracks = fetch.tracks \o pages[fetch.url],
                                     !.url = NextUrl(fetch.url, pages)]]
    /\ UNCHANGED <<isLoading, leftError, leftSongs, leftLabel, leftAverage,
                   songPaths, pageEvent>>

\* every listing has ended (Promise.all): the tracks are put together and
\* deduplicated, and the first batch is requested; with no track at all the
\* loop is skipped and the call ends
TracksListed ==
    /\ task.pc = "fetchAlbumTracks"
    /\ \A k \in 1..Len(task.fetches) : task.fetches[k].url = 0
    /\ LET tracks == Flat([k \in 1..Len(task.fetches) |-> task.fetches[k].tracks])
           unique == uniqueTracks(tracks)
       IN  IF unique = <<>>
           THEN Combine(unique, <<>>, <<>>, <<>>)
           ELSE /\ task' = [task EXCEPT !.pc = "audioFeatures",
                                        !.uniqueTracks = unique, !.i = 0,
                                        !.requests = <<TrackIdsOfBatch(unique, 0)>>]
                /\ UNCHANGED <<isLoading, leftError, leftSongs, leftLabel,
                               leftAverage, songPaths, pageEvent>>

\* await spotifyApi.tracks.audioFeatures(trackIds)
GotAudioFeatures(missing) ==
    /\ task.pc = "audioFeatures"
    /\ LET features == BatchResponse(TrackIdsOfBatch(task.uniqueTracks, task.i),
                                     missing, "audio-features")
       IN  task' = [task EXCEPT !.pc = "trackDetails",
                                !.audioFeaturesBatches = Append(@, features)]
    /\ UNCHANGED <<isLoading, leftError, leftSongs, leftLabel, leftAverage,
                   songPaths, pageEvent>>

\* await fetch(.../tracks?ids=...): the end of one turn of the batch loop;
\* after the last turn the call ends
GotTrackDetails(missing) ==
    /\ task.pc = "trackDetails"
    /\ LET tracks == BatchResponse(TrackIdsOfBatch(task.uniqueTracks, task.i),
                                   missing, "tracks")
           audioAnalysisBatches == Append(task.audioAnalysisBatches, tracks)
           i == task.i + BATCH_SIZE
       IN  IF i < Len(task.uniqueTracks)
           THEN /\ task' = [task EXCEPT
                               !.pc = "audioFeatures", !.i = i,
                               !.audioAnalysisBatches = audioAnalysisBatches,
                               !.requests =
                                   Append(@, TrackIdsOfBatch(task.uniqueTracks, i))]
                /\ UNCHANGED <<isLoading, leftError, leftSongs, leftLabel,
                               leftAverage, songPaths, pageEvent>>
           ELSE Combine(task.uniqueTracks, task.audioFeaturesBatches,
                        audioAnalysisBatches, task.requests)

\* the step a call of handleSelect is waiting for
Step(pc) ==
    CASE pc = "getSpotifyApi" -> "client"
      [] pc = "getAccessToken" -> "token"
      [] pc = "get" -> "name"
      [] pc = "fetchArtistAlbums" -> "albums"
      [] pc = "fetchAlbumTracks" -> "tracks"
      [] pc = "audioFeatures" -> "features"
      [] pc = "trackDetails" -> "details"

\* the awaited call rejects, or what it resolves to cannot be used (no
\* token, a body without items): the try block is left
Rejected ==
    /\ task # IdleTask
    /\ Catch(Step(task.pc), task.requests)

(***************************************************************************)
(* The two sides of the page: each side has its own songs, loading flag,   *)
(* error and label, and its own UnifiedSearch.  A retrieval is taken here  *)
(* as one call of handleSelect that ends by resolving or by throwing.      *)
(***************************************************************************)
Sides == {"left", "right"}

Other(side) == IF side = "left" THEN "right" ELSE "left"

\* the retrievals of one side that may be awaiting at once in the model
MaxRetrievals == 2

\* the songs handleSelect sets for a selection, taken as one value
SongsOf(selection) == <<selection>>

VARIABLES
    sideSongs,      \* leftSongs, rightSongs
    sideLoading,    \* leftLoading, rightLoading
    sideError,      \* leftError, rightError
    sideLabel,      \* leftLabel, rightLabel
    listed,         \* per side: the results of its UnifiedSearch are not empty
    retrievals,     \* per side: the calls of handleSelect that have not ended
    latest,         \* per side: the selection made last
    sideEvent       \* the step taken last on a side

sidesVars == <<sideSongs, sideLoading, sideError, sideLabel, listed,
               retrievals, latest, sideEvent>>

NoSelection == <<"none", "">>

SidesInit ==
    /\ sideSongs = [side \in Sides |-> <<>>]
    /\ sideLoading = [side \in Sides |-> FALSE]
    /\ sideError = [side \in Sides |-> ""]
    /\ sideLabel = [side \in Sides |-> IF side = "left" THEN "Set A" ELSE "Set B"]
    /\ listed = [side \in Sides |-> FALSE]
    /\ retrievals = [side \in Sides |-> <<>>]
    /\ latest = [side \in Sides |-> NoSelection]
    /\ sideEvent = [kind |-> "none"]

\* what the page holds for a side
SideState(side) ==
    [songs |-> sideSongs[side], loading |-> sideLoading[side],
     error |-> sideError[side], label |-> sideLabel[side]]

\* a step of a side, with what the page held for the other side before it
SideEventOf(kind, side, selection) ==
    [kind |-> kind, side |-> side, selection |-> selection,
     other |-> SideState(Other(side))]

\* a result list that is shown whatever isLoading is
ListShownWhileLoading(side) == listed[side]

\* the result list of a side's UnifiedSearch is on the screen, with its
\* buttons: results.length > 0 && !isLoading
ListShown(side) == listed[side] /\ ~sideLoading[side]

\* a search of the side's UnifiedSearch resolves into setResults, whether
\* the side is loading or not
SideSearchResolved(side) ==
    /\ ~listed[side]
    /\ listed' = [listed EXCEPT ![side] = TRUE]
    /\ sideEvent' = SideEventOf("results", side, NoSelection)
    /\ UNCHANGED <<sideSongs, sideLoading, sideError, sideLabel, retrievals, latest>>

\* a click on an entry of the side's result list: handleSelect of
\* UnifiedSearch, and handleSelect of the page up to its first await
SideSelect(side, selection) ==
    /\ ListShown(side)
    /\ Len(retrievals[side]) < MaxRetrievals
    /\ listed' = [listed EXCEPT ![side] = FALSE]
    /\ sideLoading' = [sideLoading EXCEPT ![side] = TRUE]
    /\ sideError' = [sideError EXCEPT ![side] = ""]
    /\ retrievals' = [retrievals EXCEPT ![side] = Append(@, selection)]
    /\ latest' = [latest EXCEPT ![side] = selection]
    /\ sideEvent' = SideEventOf("select", side, selection)
    /\ UNCHANGED <<sideSongs, sideLabel>>

\* the i-th call of handleSelect of the side reaches the end of its try
\* block: setSongs, setLabel, and setLoading(false) in finally
SideLoaded(side, i) ==
    /\ i \in 1..Len(retrievals[side])
    /\ sideSongs' = [sideSongs EXCEPT ![side] = SongsOf(retrievals[side][i])]
    /\ sideLabel' = [sideLabel EXCEPT ![side] = retrievals[side][i][2]]
    /\ sideLoading' = [sideLoading EXCEPT ![side] = FALSE]
    /\ retrievals' = [retrievals EXCEPT ![side] = RemoveAt(@, i)]
    /\ sideEvent' = SideEventOf("loaded", side, retrievals[side][i])
    /\ UNCHANGED <<sideError, listed, latest>>

\* the i-th call of handleSelect of the side throws: catch and finally
SideFailed(side, i) ==
    /\ i \in 1..Len(retrievals[side])
    /\ sideError' = [sideError EXCEPT ![side] = "Error fetching data. Please try again."]
    /\ sideLoading' = [sideLoading EXCEPT ![side] = FALSE]
    /\ retrievals' = [retrievals EXCEPT ![side] = RemoveAt(@, i)]
    /\ sideEvent' = SideEventOf("failed", side, retrievals[side][i])
    /\ UNCHANGED <<sideSongs, sideLabel, listed, latest>>

(***************************************************************************)
(* lib/spotify.ts: the cached token and the cached client                  *)
(***************************************************************************)
\* how many times the clock of the model advances
MaxTime == 3

\* how many tokens the accounts service issues in the model
MaxTokens == 3

\* how many calls of getSpotifyApi may be awaiting their token at once
MaxCalls == 2

\* the milliseconds of a second: expires_in * 1000
MS_PER_SECOND == 1000

\* expires_in of a token response, in seconds
ExpiresIn == {1, 2}

VARIABLES
    tokenData,      \* null, or the token stored last and its expires_at
    spotifyApi,     \* null, or the client made by SpotifyApi.withAccessToken
    now,            \* Date.now()
    calls,          \* the calls of getSpotifyApi awaiting the token response
    issued,         \* the number of tokens issued so far
    clientEvent     \* how the call of getSpotifyApi that ended last ended

clientVars == <<tokenData, spotifyApi, now, calls, issued, clientEvent>>

ClientInit ==
    /\ tokenData = Null
    /\ spotifyApi = Null
    /\ now = 0
    /\ calls = <<>>
    /\ issued = 0
    /\ clientEvent = [kind |-> "none"]

\* tokenData && tokenData.expires_at > Date.now()
HasValidToken ==
    IF tokenData = Null THEN FALSE ELSE tokenData.expires_at > now

\* SpotifyApi.withAccessToken(client_id, {access_token: token, ...})
withAccessToken(token) ==
    [type |-> "client", access_token |-> token, token_type |-> "Bearer",
     expires_in |-> 3600]

\* the rest of getSpotifyApi once getAccessToken has returned token, in a
\* state where the cached client is api: the client it returns
ClientFor(api, token) ==
    IF api = Null THEN withAccessToken(token) ELSE api

\* getSpotifyApi is called.  With a valid cached token getAccessToken
\* returns it without a request and the call ends; otherwise the token is
\* requested and the call awaits the response
ClientCall ==
    IF HasValidToken
    THEN /\ spotifyApi' = ClientFor(spotifyApi, tokenData.access_token)
         /\ clientEvent' = [kind |-> "returned", cached |-> TRUE,
                            token |-> tokenData.access_token,
                            client |-> spotifyApi', at |-> now,
                            expires_at |-> tokenData.expires_at]
         /\ UNCHANGED <<tokenData, now, calls, issued>>
    ELSE /\ Len(calls) < MaxCalls
         /\ calls' = Append(calls, [pc |-> "fetch"])
         /\ UNCHANGED <<tokenData, spotifyApi, now, issued, clientEvent>>

\* the response to the i-th token request arrives with a new token: it is
\* stored with its expiry, and getSpotifyApi returns
TokenResponse(i, expires_in) ==
    /\ i \in 1..Len(calls)
    /\ issued < MaxTokens
    /\ issued' = issued + 1
    /\ tokenData' = [type |-> "token", access_token |-> issued + 1,
                     expires_at |-> now + expires_in * MS_PER_SECOND]
    /\ spotifyApi' = ClientFor(spotifyApi, issued + 1)
    /\ calls' = RemoveAt(calls, i)
    /\ clientEvent' = [kind |-> "returned", cached |-> FALSE,
                       token |-> issued + 1, client |-> spotifyApi', at |-> now,
                       expires_at |-> now + expires_in * MS_PER_SECOND]
    /\ UNCHANGED now

\* the i-th token request is rejected, or its response is not ok:
\* getAccessToken throws and so does getSpotifyApi
TokenFailed(i) ==
    /\ i \in 1..Len(calls)
    /\ calls' = RemoveAt(calls, i)
    /\ clientEvent' = [kind |-> "failed"]
    /\ UNCHANGED <<tokenData, spotifyApi, now, issued>>

\* time passes, a second at a time
ClientTick ==
    /\ now < MaxTime * MS_PER_SECOND
    /\ now' = now + MS_PER_SECOND
    /\ UNCHANGED <<tokenData, spotifyApi, calls, issued, clientEvent>>

(***************************************************************************)
(* Specifications                                                          *)
(***************************************************************************)
\* the variables of the page's two sides and of the token client
restVars == <<sidesVars, clientVars>>

vars == <<searchVars, vizVars, textVars, pageVars, restVars>>

Init == SearchInit /\ VizIdle /\ TextIdle /\ PageIdle /\ SidesInit /\ ClientInit

Next ==
    \/ \E v \in Inputs : handleInputChange(v) /\ UNCHANGED <<vizVars, textVars, pageVars, restVars>>
    \/ InputClick /\ UNCHANGED <<vizVars, textVars, pageVars, restVars>>
    \/ Tick /\ UNCHANGED <<vizVars, textVars, pageVars, restVars>>
    \/ DebounceTimeout /\ UNCHANGED <<vizVars, textVars, pageVars, restVars>>
    \/ \E i \in 1..MaxInflight, r \in ApiResponses :
          SearchResolved(i, r) /\ UNCHANGED <<vizVars, textVars, pageVars, restVars>>
    \/ \E i \in 1..MaxInflight, c \in {"client", "search"} :
          SearchRejected(i, c) /\ UNCHANGED <<vizVars, textVars, pageVars, restVars>>
    \/ \E i \in 1..(2 * MaxItems) :
          handleSelect(i) /\ UNCHANGED <<vizVars, textVars, pageVars, restVars>>
    \/ ParentLoaded /\ UNCHANGED <<vizVars, textVars, pageVars, restVars>>
    \/ handleClickOutside /\ UNCHANGED <<vizVars, textVars, pageVars, restVars>>

\* UnifiedSearch
Spec == Init /\ [][Next]_vars

VizStart == SearchInit /\ VizInit /\ TextIdle /\ PageIdle /\ SidesInit /\ ClientInit

VizStep ==
    \/ Render /\ UNCHANGED <<searchVars, textVars, pageVars, restVars>>
    \/ \E songs \in UNION { [1..n -> SongPool] : n \in 0..MaxSongs } :
          NewSongs(songs) /\ UNCHANGED <<searchVars, textVars, pageVars, restVars>>

\* ComparisonViz
SpecViz == VizStart /\ [][VizStep]_vars

TextStart == SearchInit /\ VizIdle /\ TextInit /\ PageIdle /\ SidesInit /\ ClientInit

TextStep ==
    \/ CallNormalizeSearchString /\ UNCHANGED <<searchVars, vizVars, pageVars, restVars>>
    \/ CallCompareNames /\ UNCHANGED <<searchVars, vizVars, pageVars, restVars>>
    \/ CallIsLikelyAlbumSearch /\ UNCHANGED <<searchVars, vizVars, pageVars, restVars>>
    \/ CallGetMatchScore /\ UNCHANGED <<searchVars, vizVars, pageVars, restVars>>

\* the text functions
SpecText == TextStart /\ [][TextStep]_vars

\* the variables of UnifiedSearch other than the isLoading prop
searchOwnVars == <<searchTerm, selectedItem, results, searchLoading, error,
                   timer, inflight, quiet, lastEvent>>

PageStep ==
    \/ \E selection \in Selectable :
          PageHandleSelect(selection[1], selection[2])
              /\ UNCHANGED <<searchOwnVars, textVars, restVars>>
    \/ GotSpotifyApi /\ UNCHANGED <<searchOwnVars, textVars, restVars>>
    \/ GotAccessToken /\ UNCHANGED <<searchOwnVars, textVars, restVars>>
    \/ GotNamed /\ UNCHANGED <<searchOwnVars, textVars, restVars>>
    \/ FetchedAlbumsPage /\ UNCHANGED <<searchOwnVars, textVars, restVars>>
    \/ \E k \in 1..Len(task.fetches) :
          FetchedTracksPage(k) /\ UNCHANGED <<searchOwnVars, textVars, restVars>>
    \/ TracksListed /\ UNCHANGED <<searchOwnVars, textVars, restVars>>
    \/ \E missing \in MissingChoices :
          GotAudioFeatures(missing) /\ UNCHANGED <<searchOwnVars, textVars, restVars>>
    \/ \E missing \in MissingChoices :
          GotTrackDetails(missing) /\ UNCHANGED <<searchOwnVars, textVars, restVars>>
    \/ Rejected /\ UNCHANGED <<searchOwnVars, textVars, restVars>>

\* the page
SpecPage == Init /\ [][PageStep]_vars

\* a call of handleSelect that is awaiting gets its answer or its failure
PageProgress ==
    \/ Rejected /\ UNCHANGED <<searchOwnVars, textVars, restVars>>
    \/ GotSpotifyApi /\ UNCHANGED <<searchOwnVars, textVars, restVars>>
    \/ GotAccessToken /\ UNCHANGED <<searchOwnVars, textVars, restVars>>
    \/ GotNamed /\ UNCHANGED <<searchOwnVars, textVars, restVars>>
    \/ FetchedAlbumsPage /\ UNCHANGED <<searchOwnVars, textVars, restVars>>
    \/ \E k \in 1..Len(task.fetches) :
          FetchedTracksPage(k) /\ UNCHANGED <<searchOwnVars, textVars, restVars>>
    \/ TracksListed /\ UNCHANGED <<searchOwnVars, textVars, restVars>>
    \/ \E missing \in MissingChoices :
          GotAudioFeatures(missing) /\ UNCHANGED <<searchOwnVars, textVars, restVars>>
    \/ \E missing \in MissingChoices :
          GotTrackDetails(missing) /\ UNCHANGED <<searchOwnVars, textVars, restVars>>

\* the page, when every awaited call ends: the promise a call of
\* handleSelect awaits is settled by the runtime, one way or the other
SpecPageFair == Init /\ [][PageStep]_vars /\ WF_vars(PageProgress)

\* everything but the two sides
notSidesVars == <<searchVars, vizVars, textVars, pageVars, clientVars>>

SidesStep ==
    \/ \E side \in Sides : SideSearchResolved(side) /\ UNCHANGED notSidesVars
    \/ \E side \in Sides, selection \in Selectable :
          SideSelect(side, selection) /\ UNCHANGED notSidesVars
    \/ \E side \in Sides, i \in 1..MaxRetrievals :
          SideLoaded(side, i) /\ UNCHANGED notSidesVars
    \/ \E side \in Sides, i \in 1..MaxRetrievals :
          SideFailed(side, i) /\ UNCHANGED notSidesVars

\* the two sides of the page
SpecSides == Init /\ [][SidesStep]_vars

\* everything but the token client
notClientVars == <<searchVars, vizVars, textVars, pageVars, sidesVars>>

ClientStep ==
    \/ ClientCall /\ UNCHANGED notClientVars
    \/ \E i \in 1..MaxCalls, expires_in \in ExpiresIn :
          TokenResponse(i, expires_in) /\ UNCHANGED notClientVars
    \/ \E i \in 1..MaxCalls : TokenFailed(i) /\ UNCHANGED notClientVars
    \/ ClientTick /\ UNCHANGED notClientVars

\* lib/spotify.ts
SpecClient == Init /\ [][ClientStep]_vars

(***************************************************************************)
(* Claims about UnifiedSearch, checked under Spec                          *)
(***************************************************************************)
\* a call of search through the timeout or the click sent a request
Dispatched ==
    IF lastEvent.kind \in {"click", "timer"} THEN lastEvent.dispatched ELSE FALSE

\* a response has just been written to the result list
Applied ==
    IF lastEvent.kind = "resolved" THEN lastEvent.applied ELSE FALSE

\* C1: a response is written to the result list only if no request for
\* another, newer query has been issued since its own request; the response
\* of a request that was overtaken is discarded.
C1_StaleResponseDiscarded ==
    (Applied /\ CombinedResults(lastEvent.response) # <<>>) =>
        lastEvent.request.supersededBy \in {<<>>, <<lastEvent.request.query>>}

\* C2, as claimed: whenever a request is dispatched, by the timeout or by a
\* click on the input, the input has been unchanged for the whole quiet
\* period of DEBOUNCE_MS.
C2_DispatchOnlyAfterQuietPeriod ==
    Dispatched => lastEvent.quiet >= DEBOUNCE_MS

\* C2, amended: whenever the debounce timeout dispatches a request, the
\* input has been unchanged for the whole quiet period of DEBOUNCE_MS and
\* the request is for the input's current value.  (A click on the input
\* dispatches at once.)
C2_TimeoutDispatchOnlyAfterQuietPeriod ==
    (Dispatched /\ lastEvent.kind = "timer") =>
        /\ lastEvent.quiet >= DEBOUNCE_MS
        /\ lastEvent.query = searchTerm
        /\ inflight[Len(inflight)].query = searchTerm

\* C2 witness: the timeout has dispatched a request
C2_Witness == Dispatched /\ lastEvent.kind = "timer"

\* what search leaves when it only empties the result list
OnlyEmptiesResults(after) ==
    after = [results |-> <<>>, searchLoading |-> searchLoading,
             error |-> error, inflight |-> inflight]

\* some empty and whitespace-only queries
BlankQueries == { <<>>, <<" ">>, <<" ", " ">>, <<"\t", " ">>, <<"\n">> }

\* C3: in every state, search with an empty or whitespace-only query only
\* empties the result list and sends no request; and when the timeout or a
\* click has called search with such a query, the list is empty and no
\* request was sent.
C3_BlankQueryShortCircuits ==
    /\ \A q \in BlankQueries :
          OnlyEmptiesResults(SearchCall(q, selectedItem, isLoading))
    /\ (lastEvent.kind \in {"click", "timer"} /\ Trim(lastEvent.query) = <<>>)
          => (~lastEvent.dispatched /\ results = <<>>)

\* C3 witness: a click has called search with a whitespace-only query while
\* a request of an earlier query is still in flight
C3_Witness ==
    /\ lastEvent.kind = "click"
    /\ lastEvent.query = <<" ">>
    /\ inflight # <<>>

\* getMatchScore of every item of the catalogue for every query, worked out
\* once
MatchScoreOf ==
    [x \in ArtistItems \cup AlbumItems, q \in Inputs |-> getMatchScore(x, q)] @@ <<>>

\* the place of item x in list l
IndexOf(l, x) == CHOOSE i \in 1..Len(l) : l[i] = x

Range(l) == { l[i] : i \in 1..Len(l) }

\* C4: after a successful search the result list holds exactly the merged
\* candidates (artists, then albums), in an order in which the score never
\* increases and candidates of equal score keep their merged order; sorting
\* the list again changes nothing.
C4_ResultsSortedStably ==
    Applied =>
        LET merged == CombinedResults(lastEvent.response)
            query == lastEvent.request.query
            Score(x) == MatchScoreOf[x, query]
        IN  /\ Len(results) = Len(merged)
            /\ Range(results) = Range(merged)
            /\ \A i, j \in 1..Len(results) :
                  i < j => /\ Score(results[i]) >= Score(results[j])
                           /\ Score(results[i]) = Score(results[j])
                                 => IndexOf(merged, results[i])
                                        < IndexOf(merged, results[j])
            /\ SortByScore(results, query) = results

\* C4 witness: a response was applied whose merged list had to be reordered
\* and holds two candidates of equal score
C4_Witness ==
    /\ Applied
    /\ results # CombinedResults(lastEvent.response)
    /\ \E i, j \in 1..Len(results) :
          /\ i # j
          /\ MatchScoreOf[results[i], lastEvent.request.query]
                = MatchScoreOf[results[j], lastEvent.request.query]

\* C5: when a search call has failed (getSpotifyApi or spotifyApi.search),
\* the error message is not empty, so the state is not that of a search
\* with no matches (empty list, empty message), and the input text is what
\* it was; a search that succeeds with no matches empties the list and sets
\* no error message.
C5_FailureIsAnErrorState ==
    /\ lastEvent.kind = "rejected" =>
          /\ error # ""
          /\ ~(results = <<>> /\ error = "")
          /\ searchTerm = lastEvent.searchTerm
    /\ (Applied /\ CombinedResults(lastEvent.response) = <<>>) =>
          /\ results = <<>>
          /\ error = lastEvent.error

\* C5 witness: the call failed while the list was empty, where a silent
\* failure would look like no matches
C5_Witness ==
    /\ lastEvent.kind = "rejected"
    /\ results = <<>>
    /\ Trim(searchTerm) # <<>>

\* C6: after handleSelect the result list is empty, the clicked item is the
\* selected item, the input text is its name, onSelect was called with its
\* type and id, and the parent is loading.
C6_SelectClearsResults ==
    lastEvent.kind = "select" =>
        /\ results = <<>>
        /\ selectedItem = lastEvent.result
        /\ searchTerm = lastEvent.result.name
        /\ lastEvent.onSelect = <<selectedItem.type, selectedItem.id>>
        /\ isLoading

\* C6 witness: an album was selected
C6_Witness ==
    /\ lastEvent.kind = "select"
    /\ selectedItem.type = "album"

\* C7: while the input text is the selected item's name no timeout is
\* armed, no request has just been dispatched, and a call of search with
\* the text only empties the result list.
C7_NoSearchForSelectedName ==
    /\ Dispatched => ~IsSelectedName(searchTerm, selectedItem)
    /\ IsSelectedName(searchTerm, selectedItem) =>
          /\ ~timer.armed
          /\ OnlyEmptiesResults(SearchCall(searchTerm, selectedItem, isLoading))

\* C7 witness: the text has been the selected item's name for the whole
\* quiet period, the parent has finished loading, and no request is out
C7_Witness ==
    /\ IsSelectedName(searchTerm, selectedItem)
    /\ ~isLoading
    /\ quiet = DEBOUNCE_MS
    /\ inflight = <<>>

(***************************************************************************)
(* Claims about ComparisonViz, checked under SpecViz                       *)
(***************************************************************************)
\* the average path of a collection that is not empty has been worked out
AverageDrawn == leftAverage # Pending /\ leftAverage # NoPath

\* the vertex of a path on axis k of FEATURES
Vertex(path, k) == path.curves[k].control

\* the arithmetic mean of the values f[1], ..., f[n]
Mean(f, n) == RatDiv(RatSum(f, n), Whole(n))

\* the mean over the collection of the once-normalized values of a feature
MeanNormalized(songs, feature) ==
    Mean([i \in 1..Len(songs) |-> normalizeValue(songs[i], feature)], Len(songs))

\* the tempo normalization, applied to a number of BPM
NormalizeTempo(bpm) == normalizeValue([tempo |-> bpm], "tempo")

Tempi(songs) == [i \in 1..Len(songs) |-> songs[i].tempo]

\* C8: the average path of a collection of one track has, on every axis,
\* the vertex of the track's own path.
C8_SingleTrackAverageIsItsPath ==
    (AverageDrawn /\ Len(leftSongs) = 1) =>
        \A k \in 1..Len(FEATURES) :
            Vertex(leftAverage, k) = Vertex(songPaths[1], k)

\* C9: on the axis of every feature other than tempo, the radius of the
\* average path is the scaled arithmetic mean of the tracks' once-normalized
\* values of the feature.
C9_AverageIsMeanOfNormalized ==
    AverageDrawn =>
        \A k \in 1..Len(FEATURES) :
            FEATURES[k] # "tempo" =>
                Vertex(leftAverage, k).radius
                    = radialScale(MeanNormalized(leftSongs, FEATURES[k]))

\* the radius of the average path on the tempo axis
TempoRadius == Vertex(leftAverage, 1).radius

\* C10, as claimed: the tempo value of the average path is the normalized
\* mean of the raw BPM values; for 100 and 140 BPM it is normalize(120), and
\* that differs from the mean of normalize(100) and normalize(140).
C10_TempoDiffersFromMeanOfNormalized ==
    AverageDrawn =>
        /\ TempoRadius
              = radialScale(NormalizeTempo(Mean(Tempi(leftSongs), Len(leftSongs))))
        /\ Tempi(leftSongs) = <<Whole(100), Whole(140)>> =>
              /\ TempoRadius = radialScale(NormalizeTempo(Whole(120)))
              /\ TempoRadius # radialScale(MeanNormalized(leftSongs, "tempo"))

\* every tempo of the collection lies in the window that is not clamped
InTempoWindow(songs) ==
    \A i \in 1..Len(songs) :
        /\ ~RatLess(songs[i].tempo, Whole(60))
        /\ ~RatLess(Whole(180), songs[i].tempo)

\* C10, amended: the tempo value of the average path is the normalized mean
\* of the raw BPM values; for 100 and 140 BPM it is normalize(120) = 1/2,
\* which equals the mean of normalize(100) and normalize(140), as it does
\* whenever every tempo lies between 60 and 180 BPM; with a clamped tempo
\* the two differ (40 and 140 BPM: normalize(90) = 1/4, not 1/3).
C10_TempoNormalizedAfterAveraging ==
    AverageDrawn =>
        /\ TempoRadius
              = radialScale(NormalizeTempo(Mean(Tempi(leftSongs), Len(leftSongs))))
        /\ InTempoWindow(leftSongs) =>
              TempoRadius = radialScale(MeanNormalized(leftSongs, "tempo"))
        /\ Tempi(leftSongs) = <<Whole(100), Whole(140)>> =>
              /\ TempoRadius = radialScale(NormalizeTempo(Whole(120)))
              /\ TempoRadius = radialScale(Rat(1, 2))
        /\ Tempi(leftSongs) = <<Whole(40), Whole(140)>> =>
              /\ TempoRadius = radialScale(Rat(1, 4))
              /\ MeanNormalized(leftSongs, "tempo") = Rat(1, 3)

\* C10 witness: the average path of tracks at 100 and 140 BPM is drawn
C10_Witness ==
    /\ AverageDrawn
    /\ Tempi(leftSongs) = <<Whole(100), Whole(140)>>

\* C11: getAveragePath of an empty collection is null (NoPath), in every
\* state and without the division by the number of songs, which for no songs
\* is a division by zero that the evaluation would stop at; and once an
\* empty collection is rendered, its average is null and no path element is
\* drawn for it.
C11_EmptyCollectionHasNoAverage ==
    /\ getAveragePath(<<>>) = NoPath
    /\ (leftSongs = <<>> /\ leftAverage # Pending) =>
          /\ leftAverage = NoPath
          /\ AveragePathElement(leftAverage) = <<>>
          /\ songPaths = <<>>

\* C11 witness: an empty collection has been rendered
C11_Witness ==
    /\ leftSongs = <<>>
    /\ leftAverage = NoPath

\* the paths that are drawn: one of each song, and the average
DrawnPaths ==
    { songPaths[i] : i \in 1..Len(songPaths) }
        \cup (IF AverageDrawn THEN {leftAverage} ELSE {})

\* C12: every drawn path has exactly one vertex for each entry of FEATURES,
\* in the order of FEATURES from axis 0, starts at the vertex of axis 0 and
\* is closed back to it, whatever the values of the features.
C12_OneVertexPerFeature ==
    \A path \in DrawnPaths :
        /\ Len(path.curves) = Len(FEATURES)
        /\ \A k \in 1..Len(FEATURES) :
              /\ Vertex(path, k).feature = FEATURES[k]
              /\ Vertex(path, k).axis = k - 1
        /\ path.start = Vertex(path, 1)
        /\ path.curves[Len(FEATURES)].to[2] = path.start
        /\ path.closed

\* C12 witness: the path of a track is drawn whose values are zero on one
\* axis, negative on another and above the range on a third
C12_Witness ==
    \E i \in 1..Len(songPaths) :
        /\ \E k \in 1..Len(FEATURES) : Vertex(songPaths[i], k).radius = Whole(0)
        /\ \E k \in 1..Len(FEATURES) :
              RatLess(Vertex(songPaths[i], k).radius, Whole(0))
        /\ \E k \in 1..Len(FEATURES) :
              RatLess(Whole(radius), Vertex(songPaths[i], k).radius)

\* C13: for a rendered collection of n >= 1 tracks, the opacities of a
\* hovered track are the constants 0.08 and 0.5 (kept squared), and each is
\* higher than the opacity of a track that is not hovered.
C13_HoverOpacityIsHigher ==
    (leftAverage # Pending /\ Len(leftSongs) >= 1) =>
        LET opacities == getOpacityScale(Len(leftSongs))
            hovered == SongPath(TRUE, opacities)
            plain == SongPath(FALSE, opacities)
        IN  /\ hovered.fillOpacity = Rat(64, 10000)
            /\ hovered.strokeOpacity = Rat(1, 4)
            /\ RatLess(plain.fillOpacity, hovered.fillOpacity)
            /\ RatLess(plain.strokeOpacity, hovered.strokeOpacity)

(***************************************************************************)
(* Claims about the text functions, checked under SpecText                 *)
(***************************************************************************)
\* a call of the function has returned
HasReturned(fn) == call.fn = fn /\ call.returned

The == <<"T","h","e"," ">>

\* the string begins with an article, in either case
BeginsWithArticle(str) ==
    LET l == ToLowerCase(str)
    IN  \/ StartsWith(l, <<"t","h","e"," ">>)
        \/ StartsWith(l, <<"a"," ">>)
        \/ StartsWith(l, <<"a","n"," ">>)

\* the string holds an opening bracket and, somewhere after it, a closing one
HasBracketedSegment(str) ==
    \E i, j \in 1..Len(str) : i < j /\ str[i] \in Openers /\ str[j] \in Closers

\* every opening bracket that is followed by a closing one is parted from
\* it by a line terminator
SegmentsSpanLines(str) ==
    \A i, j \in 1..Len(str) :
        (i < j /\ str[i] \in Openers /\ str[j] \in Closers) =>
            \E k \in (i + 1)..(j - 1) : str[k] \in LineTerminators

\* the normalization of a string whose leading article, if any, is kept
NormalizedKeepingArticle(str) ==
    Trim(StripPunctuation(StripBracketed(ToLowerCase(str))))

\* C14, as claimed: for a name X that does not begin with an article,
\* normalizeSearchString("The " + X) is normalizeSearchString(X); and the
\* result of normalizeSearchString is in lower case, holds no parenthesized
\* or bracketed segment and has no white space around it.
C14_ArticleStrippedAndSegmentsRemoved ==
    HasReturned("normalizeSearchString") =>
        LET X == call.args[1]
        IN  /\ ~BeginsWithArticle(X) =>
                  normalizeSearchString(The \o X) = call.result
            /\ ToLowerCase(call.result) = call.result
            /\ ~HasBracketedSegment(call.result)
            /\ Trim(call.result) = call.result

\* C14, amended: for a name X that does not begin with an article (in
\* either case), normalizeSearchString("The " + X) is
\* normalizeSearchString(X); for every X, one article and no more is taken
\* off "The " + X; and the result is in lower case, has no white space
\* around it, holds no parenthesis, and holds no bracketed segment that lies
\* on one line: a segment with a line terminator between its brackets is
\* left in place.
C14_ArticleStrippedAndOneLineSegmentsRemoved ==
    HasReturned("normalizeSearchString") =>
        LET X == call.args[1]
        IN  /\ ~BeginsWithArticle(X) =>
                  normalizeSearchString(The \o X) = call.result
            /\ normalizeSearchString(The \o X) = NormalizedKeepingArticle(X)
            /\ ToLowerCase(call.result) = call.result
            /\ Trim(call.result) = call.result
            /\ \A i \in 1..Len(call.result) : call.result[i] \notin {"(", ")"}
            /\ SegmentsSpanLines(call.result)
            /\ (\A i \in 1..Len(X) : X[i] \notin LineTerminators) =>
                  ~HasBracketedSegment(call.result)

\* C14 witness: normalizeSearchString("Beatles") has returned "beatles",
\* which normalizeSearchString("The Beatles") returns too
C14_Witness ==
    /\ HasReturned("normalizeSearchString")
    /\ call.args = <<Beatles>>
    /\ call.result = <<"b","e","a","t","l","e","s">>
    /\ normalizeSearchString(TheBeatles) = call.result

\* the indicator substrings as the claim lists them
ClaimedIndicators ==
    { <<"a","l","b","u","m">>, <<"r","e","c","o","r","d">>,
      <<"s","o","u","n","d","t","r","a","c","k">>, <<"v","o","l">>,
      <<"v","o","l","u","m","e">>, <<"c","o","l","l","e","c","t","i","o","n">>,
      <<"d","e","l","u","x","e">>, <<"r","e","m","a","s","t","e","r">> }

\* C15: isLikelyAlbumSearch(query) is true exactly when the normalized query
\* contains one of the indicator substrings or is an entry of the set of
\* known albums; it is true for "Abbey Road" and false for "Radiohead".
C15_AlbumSearchIffIndicatorOrKnownAlbum ==
    HasReturned("isLikelyAlbumSearch") =>
        LET normalized == normalizeSearchString(call.args[1])
        IN  /\ call.result <=>
                  \/ \E indicator \in ClaimedIndicators :
                        \E i \in 1..Len(normalized) :
                           StartsWith(Drop(normalized, i - 1), indicator)
                  \/ normalized \in knownAlbums
            /\ call.args = <<AbbeyRoad>> => call.result
            /\ call.args = <<Radiohead>> => ~call.result

\* C15 witness: isLikelyAlbumSearch("Abbey Road") has returned true
C15_Witness ==
    /\ HasReturned("isLikelyAlbumSearch")
    /\ call.args = <<AbbeyRoad>>
    /\ call.result

\* C16: compareNames(a, b) is true exactly when the normalized names are
\* equal, or one contains the other, or one is the other with "the " before
\* it; compareNames("Led Zeppelin", "led zeppelin iv") is true; and
\* compareNames(b, a) is compareNames(a, b).
C16_CompareNamesSymmetricContainment ==
    HasReturned("compareNames") =>
        LET a == normalizeSearchString(call.args[1])
            b == normalizeSearchString(call.args[2])
            the == <<"t","h","e"," ">>
        IN  /\ call.result <=>
                  \/ a = b
                  \/ Includes(a, b)
                  \/ Includes(b, a)
                  \/ the \o a = b
                  \/ the \o b = a
            /\ call.args = <<LedZeppelin, LedZeppelinIV>> => call.result
            /\ call.result = compareNames(call.args[2], call.args[1])

\* C16 witness: compareNames("Led Zeppelin", "led zeppelin iv") has returned
\* true
C16_Witness ==
    /\ HasReturned("compareNames")
    /\ call.args = <<LedZeppelin, LedZeppelinIV>>
    /\ call.result

\* the popularity a candidate is scored with
ScoredPopularity(p) == IF p = Undefined THEN 0 ELSE p

\* C17: the score of an album candidate is at most the score of every
\* candidate that differs from it only in a popularity that is higher or
\* the same, for the same query; and a candidate without a popularity has
\* the score of the one with popularity 0.
C17_AlbumScoreMonotoneInPopularity ==
    (HasReturned("getMatchScore") /\ call.args[1].type = "album") =>
        LET result == call.args[1]
            query == call.args[2]
        IN  /\ \A p \in Popularities :
                  ScoredPopularity(p) >= ScoredPopularity(result.popularity) =>
                      getMatchScore([result EXCEPT !.popularity = p], query)
                          >= call.result
            /\ \A p \in Popularities :
                  ScoredPopularity(p) > ScoredPopularity(result.popularity) =>
                      getMatchScore([result EXCEPT !.popularity = p], query)
                          > call.result
            /\ result.popularity = Undefined =>
                  call.result = getMatchScore([result EXCEPT !.popularity = 0], query)

\* C17 witness: an album without a popularity has been scored on the branch
\* of an album search whose name matches
C17_Witness ==
    /\ HasReturned("getMatchScore")
    /\ call.args[1].popularity = Undefined
    /\ call.args[1].name = AbbeyRoad
    /\ call.args[2] = AbbeyRoad
    /\ call.result >= 2 * 10000 * Milli

\* a call of getMatchScore on a candidate of the type has returned
Scored(type) == HasReturned("getMatchScore") /\ call.args[1].type = type

\* what the artist branch adds for a candidate whose name matches: the
\* popularity, the followers and the boost of a major artist
ArtistMatchTerms(result) ==
    ScoredPopularity(result.popularity) * 50 * Milli
        + Min(3000 * Milli,
              LogTimes100(IF result.followers \in {Undefined, 0}
                          THEN 1 ELSE result.followers))
        + (IF normalizeSearchString(result.name) \in MAJOR_ARTISTS
           THEN 5000 * Milli ELSE 0)

\* C21, as claimed: the score of an artist candidate whose name matches the
\* query is popularity * 50 + min(3000, ln(followers or 1) * 100), plus 5000
\* for a major artist, and nothing for the text match.
C21_ArtistMatchScoreHasNoBase ==
    (Scored("artist") /\ compareNames(call.args[1].name, call.args[2])) =>
        call.result = ArtistMatchTerms(call.args[1])

\* C21, amended: the score of an artist candidate whose name matches the
\* query is the text-match base of 10000, plus popularity * 50, plus
\* min(3000, ln(followers or 1) * 100), plus 5000 for a major artist.
C21_ArtistMatchScoreIncludesBase ==
    (Scored("artist") /\ compareNames(call.args[1].name, call.args[2])) =>
        call.result = 10000 * Milli + ArtistMatchTerms(call.args[1])

\* C21 witness: the major artist "Queen", with a popularity and followers,
\* has been scored for the query "queen"
C21_Witness ==
    /\ Scored("artist")
    /\ call.args[1].name = Queen
    /\ call.args[1].popularity = 50
    /\ call.args[1].followers = 1000
    /\ call.args[2] = <<"q","u","e","e","n">>

\* the boost of an album one of whose artists is a major artist
MajorBoost(result) ==
    IF \E i \in 1..Len(result.artists) :
           normalizeSearchString(result.artists[i]) \in MAJOR_ARTISTS
    THEN 5000 * Milli
    ELSE 0

\* C22: the score of an album candidate is, with nameScore the text-match
\* base: nameScore * 2 + popularity * 100 + majorBoost when the query is a
\* likely album search and nameScore > 0; otherwise 7000 + popularity * 50 +
\* majorBoost when one of its artists matches the query; otherwise
\* nameScore + popularity * 30 + majorBoost / 2.
C22_AlbumScoreBranches ==
    Scored("album") =>
        LET result == call.args[1]
            query == call.args[2]
            nameScore == BaseScore(result, query)
            popularity == ScoredPopularity(result.popularity)
            artistMatch == \E i \in 1..Len(result.artists) :
                               compareNames(result.artists[i], query)
        IN  call.result =
                CASE isLikelyAlbumSearch(query) /\ nameScore > 0 ->
                        nameScore * 2 + popularity * 100 * Milli + MajorBoost(result)
                  [] ~(isLikelyAlbumSearch(query) /\ nameScore > 0) /\ artistMatch ->
                        7000 * Milli + popularity * 50 * Milli + MajorBoost(result)
                  [] OTHER ->
                        nameScore + popularity * 30 * Milli + MajorBoost(result) \div 2

\* C22 witness: the album "led zeppelin iv" of Led Zeppelin has been scored
\* for the query "led zeppelin iv", which is a likely album search, matches
\* the name and matches the artist: the first branch is the one taken
C22_Witness ==
    /\ Scored("album")
    /\ call.args[1].name = LedZeppelinIV
    /\ call.args[1].artists = <<LedZeppelin>>
    /\ call.args[1].popularity = 50
    /\ call.args[2] = LedZeppelinIV
    /\ call.result = (2 * 10000 + 50 * 100 + 5000) * Milli

\* C23: the score of an artist candidate whose name does not match the
\* query is popularity * 10 when the query is not a likely album search, and
\* at most 1000 when it is.
C23_ArtistNoMatchScore ==
    (Scored("artist") /\ ~compareNames(call.args[1].name, call.args[2])) =>
        IF isLikelyAlbumSearch(call.args[2])
        THEN call.result <= 1000 * Milli
        ELSE call.result = ScoredPopularity(call.args[1].popularity) * 10 * Milli

\* C23 witness: the artist "Muse" of popularity 50 has been scored for the
\* query "queen"
C23_Witness ==
    /\ Scored("artist")
    /\ call.args[1].name = Muse
    /\ call.args[1].popularity = 50
    /\ call.args[2] = <<"q","u","e","e","n">>
    /\ call.result = 500 * Milli

\* the condition of the tier of 8000 or of the tier of 6000 holds
PrefixOrSubstring(name, query) ==
    LET searchNorm == normalizeSearchString(query)
        nameNorm == normalizeSearchString(name)
    IN  \/ StartsWith(nameNorm, searchNorm) \/ StartsWith(searchNorm, nameNorm)
        \/ Includes(nameNorm, searchNorm) \/ Includes(searchNorm, nameNorm)

\* C26: the text-match base of a scored candidate is 10000 or 0; whenever
\* the condition of the tier of 8000 or of 6000 holds, compareNames holds
\* and the base is 10000.
C26_BaseScoreIsAllOrNothing ==
    HasReturned("getMatchScore") =>
        LET result == call.args[1]
            query == call.args[2]
        IN  /\ BaseScore(result, query) \in {0, 10000 * Milli}
            /\ PrefixOrSubstring(result.name, query) =>
                  /\ compareNames(result.name, query)
                  /\ BaseScore(result, query) = 10000 * Milli

\* C26 witness: a candidate has been scored whose normalized name begins
\* with the normalized query and is not equal to it
C26_Witness ==
    /\ HasReturned("getMatchScore")
    /\ call.args[1].name = QueenII
    /\ call.args[2] = <<"q","u","e","e","n">>
    /\ normalizeSearchString(call.args[1].name) # normalizeSearchString(call.args[2])

\* C27: normalizeSearchString leaves every entry of MAJOR_ARTISTS and of
\* knownAlbums as it is; an artist whose name is an entry of MAJOR_ARTISTS,
\* scored for its own name, gets the boost of 5000 on top of the base; and
\* a query that is an entry of knownAlbums is a likely album search.
C27_CuratedEntriesAreRecognized ==
    /\ (HasReturned("normalizeSearchString")
          /\ call.args[1] \in MAJOR_ARTISTS \cup knownAlbums) =>
              call.result = call.args[1]
    /\ (HasReturned("isLikelyAlbumSearch") /\ call.args[1] \in knownAlbums) =>
              call.result
    /\ (Scored("artist") /\ call.args[1].name \in MAJOR_ARTISTS
          /\ call.args[2] = call.args[1].name) =>
              call.result =
                  (10000 + 5000) * Milli
                      + ScoredPopularity(call.args[1].popularity) * 50 * Milli
                      + Min(3000 * Milli,
                            LogTimes100(IF call.args[1].followers \in {Undefined, 0}
                                        THEN 1 ELSE call.args[1].followers))

(***************************************************************************)
(* Claims about the requests of UnifiedSearch, checked under Spec          *)
(***************************************************************************)
\* C24: from a selection until the next change of the input text, the
\* result list of UnifiedSearch is empty: no response to a request that was
\* in flight at the selection is written to it, while the parent is loading
\* or after.  selectedItem is set by a selection and cleared by the next
\* change of the text, so it marks exactly that span.
C24_ResultsStayEmptyAfterSelection ==
    selectedItem # Null => results = <<>>

\* C25: searchLoading is true whenever a search request is in flight; the
\* completion of one of two overlapping requests does not clear it.
C25_SearchLoadingWhileInFlight ==
    inflight # <<>> => searchLoading

(***************************************************************************)
(* Claims about the page, checked under SpecPage                           *)
(***************************************************************************)
\* the last call of handleSelect has failed
SelectionFailed == pageEvent.kind = "failed"

\* the last call of handleSelect has set a new collection
SelectionLoaded == pageEvent.kind = "loaded"

\* C18: when a step of handleSelect has failed, whichever it is, the error
\* message is set, the side is not loading, the collection and the label
\* are those of before the selection, and no call is running: nothing is
\* tried again.
C18_FailedSelectionKeepsCollection ==
    SelectionFailed =>
        /\ pageEvent.cause \in {"client", "token", "name", "albums", "tracks",
                                "features", "details", "merge"}
        /\ leftError # ""
        /\ ~isLoading
        /\ leftSongs = pageEvent.before.songs
        /\ leftLabel = pageEvent.before.label
        /\ task = IdleTask

\* C18 witness: the merge has failed on a side that showed a collection
C18_Witness ==
    /\ SelectionFailed
    /\ pageEvent.cause = "merge"
    /\ leftSongs # <<>>

\* the identifiers of the tracks of the selection, album after album in the
\* order of the listing of the albums, track after track in the order of
\* each album
ListedIds(type, id) ==
    IF type = "album"
    THEN AlbumTrackIds(id)
    ELSE LET albums == Flat(ArtistAlbumPages(id))
         IN  Flat([k \in 1..Len(albums) |-> AlbumTrackIds(albums[k].id)])

\* the first place of x in a list
FirstIndex(list, x) ==
    LET places == { k \in 1..Len(list) : list[k] = x }
    IN  CHOOSE k \in places : \A other \in places : k <= other

\* C19: after a successful selection no two songs of the collection have
\* the same identifier, the identifiers are those of the listed tracks, and
\* they stand in the order of their first occurrence in the listing.
C19_CollectionDedupedInListingOrder ==
    SelectionLoaded =>
        LET listing == ListedIds(pageEvent.type, pageEvent.id)
            firstIn == [x \in Range(listing) |-> FirstIndex(listing, x)]
        IN  /\ \A i, j \in 1..Len(leftSongs) :
                  i < j => leftSongs[i].id # leftSongs[j].id
            /\ { leftSongs[i].id : i \in 1..Len(leftSongs) } = Range(listing)
            /\ \A i \in 1..(Len(leftSongs) - 1) :
                  firstIn[leftSongs[i].id] < firstIn[leftSongs[i + 1].id]

\* C19 witness: an artist was loaded whose albums share tracks, the album
\* listed first being the one with the higher identifiers
C19_Witness ==
    /\ SelectionLoaded
    /\ pageEvent.type = "artist"
    /\ pageEvent.id = "B"
    /\ Len(leftSongs) < Len(ListedIds("artist", "B"))

C28_OneRetrievalPerSide ==
    /\ \A side \in Sides :
          /\ Len(retrievals[side]) <= 1
          /\ sideLoading[side] <=> retrievals[side] # <<>>
          /\ sideLoading[side] => ~ListShown(side)
    /\ sideEvent.kind = "loaded" =>
          /\ sideEvent.selection = latest[sideEvent.side]
          /\ sideSongs[sideEvent.side] = SongsOf(latest[sideEvent.side])
          /\ sideLabel[sideEvent.side] = latest[sideEvent.side][2]
    /\ sideEvent.kind # "none" =>
          SideState(Other(sideEvent.side)) = sideEvent.other

\* C28 witness: the retrieval of the left side has ended with its
\* collection while the right side, which shows another collection, is
\* loading and its search has filled its hidden result list
C28_Witness ==
    /\ sideEvent.kind = "loaded"
    /\ sideEvent.side = "left"
    /\ sideSongs["left"] = SongsOf(<<"album", "X">>)
    /\ sideSongs["right"] = SongsOf(<<"artist", "A">>)
    /\ sideLoading["right"]
    /\ listed["right"]

(***************************************************************************)
(* The end of a selection, checked under SpecPageFair                      *)
(***************************************************************************)
\* the collection and the label of the selection are both applied
NewCollectionApplied ==
    /\ pageEvent.kind = "loaded"
    /\ leftLabel = pageEvent.id
    /\ { leftSongs[i].id : i \in 1..Len(leftSongs) }
           = Range(ListedIds(pageEvent.type, pageEvent.id))

\* the error message is set
ErrorMessageSet ==
    /\ pageEvent.kind = "failed"
    /\ leftError = "Error fetching data. Please try again."

\* C29: a selection sets the loading flag and clears the error at once;
\* and when every awaited call ends, a side that is loading eventually is
\* not, with the new collection and label applied or the error message set.
C29_SelectionEventuallyEnds ==
    /\ [](pageEvent.kind = "select" => (isLoading /\ leftError = ""))
    /\ [](isLoading => <>(~isLoading /\ (NewCollectionApplied \/ ErrorMessageSet)))

\* C29 witness: on a side that showed nothing, the selection of an artist
\* whose albums are listed in two pages has ended with the artist's
\* collection and label and no error
C29_Witness ==
    /\ ~isLoading
    /\ NewCollectionApplied
    /\ pageEvent.type = "artist"
    /\ pageEvent.id = "A"
    /\ pageEvent.before.songs = <<>>
    /\ leftError = ""

(***************************************************************************)
(* Claims about the token client, checked under SpecClient                 *)
(***************************************************************************)
\* C30: the client a call of getSpotifyApi returns holds the access token
\* that getAccessToken returned in that call, and a cached token is
\* returned only while its expiry time is in the future.
C30_ClientCarriesTokenOfItsCall ==
    clientEvent.kind = "returned" =>
        /\ clientEvent.client.access_token = clientEvent.token
        /\ clientEvent.cached => clientEvent.expires_at > clientEvent.at

\* the part of C30 about the reuse of the cached token, which holds
TokenReusedOnlyBeforeExpiry ==
    (clientEvent.kind = "returned" /\ clientEvent.cached) =>
        clientEvent.expires_at > clientEvent.at

=============================================================================
